---- MODULE Spec2Model ----
(***************************************************************************)
(* Model of the batch mAP/AP glue of CFReT-screen-mAP-analysis:             *)
(*   src/src/analysis_utils.py  calculate_trt_map_batch_profiles           *)
(*   src/src/data_utils.py      concat_batch_profiles, annotate_batch,     *)
(*                              split_meta_and_features                    *)
(*   src/src/io_utils.py        load_config, load_barcodes,                *)
(*                              batch_load_profiles                        *)
(*   src/utils/data_utils.py    find_shared_features                       *)
(*   and of two notebook cells: the pathway validation of pairwise-compare *)
(*   and the input paths of 2.map-analysis.                                *)
(* Each function has its own specification over the shared variables; the  *)
(* functions that are not running keep their variables unchanged.          *)
(* SpecTwoRuns runs calculate_trt_map_batch_profiles twice on the same     *)
(* arguments with shuffled flipped; SpecPipeline chains                    *)
(* batch_load_profiles, concat_batch_profiles and                          *)
(* calculate_trt_map_batch_profiles.                                       *)
(* Data frames are values [columns, index, rows]; a row is a function from *)
(* column name to value.  Data frames live in a heap and Python variables  *)
(* hold references into it, so that DataFrame.copy() and in-place          *)
(* mutation are distinguishable.  Strings are TLC strings and f-strings    *)
(* are built with \o, so two formatted names are equal exactly when the    *)
(* Python strings are.                                                     *)
(***************************************************************************)
EXTENDS Integers, Sequences, FiniteSets, TLC

VARIABLES
    heap,              \* data frames by reference (1..Len(heap))
    caller,            \* the caller's data frames as they were at the call
    batched_profiles,  \* calculate_trt_map_batch_profiles' first argument:
                       \* [type, items], items = <<[batch_id, ref]>> in dict order
    configs,           \* its configs argument
    outdir_path,       \* its outdir_path argument
    shuffled,          \* its shuffled argument: "True", "False" or "None"
    pc,                \* position in the running function
    err,               \* the exception that ended the call, or "none"
    loaded,            \* configs after line 66: sections -> keys present
    bi,                \* batches taken from batched_profiles.items() so far
    ci,                \* controls taken from control_list for this batch
    profile,           \* the loop variable `profile` (a reference)
    replicate_aps,     \* AP table (lines 116-128)
    replicate_maps,    \* mAP table (lines 141-147)
    writes,            \* every to_csv call so far: <<[path, columns, rows]>>
    batch_profile,     \* concat_batch_profiles' argument, in dict order:
                       \* <<[batch_id, platemaps: <<[platemap_name, profiles]>>]>>
    batch_profiles_concat,  \* its result: <<[batch_id, ref]>> in dict order
    updated_profiles,  \* its list of this batch's frames (references)
    cb,                \* batches taken from batch_profile.items() so far
    cp,                \* platemaps taken from platemap_dict.items() so far
    cx,                \* profiles taken from enumerate(list_of_profiles)
    ann,               \* annotate_batch: its arguments and locals
    spl,               \* split_meta_and_features: its arguments and result
    fsf,               \* find_shared_features: its argument and locals
    blp,               \* batch_load_profiles: its arguments and locals
    lbc,               \* load_barcodes: the barcode file and the result
    pwc,               \* pairwise-compare In[14]: its tables and lookups
    first_run          \* how an earlier run of calculate_trt_map_batch_profiles
                       \* on the same arguments ended, and what it wrote

calc_vars == <<batched_profiles, configs, outdir_path, shuffled, loaded,
               bi, ci, profile, replicate_aps, replicate_maps, writes>>

concat_vars == <<batch_profile, batch_profiles_concat, updated_profiles,
                 cb, cp, cx>>

other_vars == <<ann, spl, fsf, blp, lbc, pwc, first_run>>

vars == <<heap, caller, pc, err, calc_vars, concat_vars, other_vars>>

-----------------------------------------------------------------------------
(* Bounds of the model *)

MaxBatches == 2
MaxPlates == 2
MaxColumns == 3
MaxPaths == 3
MaxRows == 3

-----------------------------------------------------------------------------
(* Sequences *)

Range(s) == {s[i] : i \in DOMAIN s}

RECURSIVE SelectPositions(_, _, _)
\* the sub-sequence of s at the positions in P, from position i on, in order
SelectPositions(s, P, i) ==
    IF i > Len(s) THEN <<>>
    ELSE (IF i \in P THEN <<s[i]>> ELSE <<>>) \o SelectPositions(s, P, i + 1)

RECURSIVE Flatten(_)
\* the concatenation of the sequences of ss, in order
Flatten(ss) == IF ss = <<>> THEN <<>> ELSE Head(ss) \o Flatten(Tail(ss))

RECURSIVE Distinct(_)
\* the distinct elements of s, in order of first appearance
Distinct(s) ==
    IF s = <<>> THEN <<>>
    ELSE LET d == Distinct(SubSeq(s, 1, Len(s) - 1))
             x == s[Len(s)]
         IN IF x \in Range(d) THEN d ELSE Append(d, x)

-----------------------------------------------------------------------------
(* pandas data frames *)

RangeIndex(n) == [i \in 1..n |-> i - 1]

DataFrame(columns, rows) ==
    [columns |-> columns, index |-> RangeIndex(Len(rows)), rows |-> rows]

\* row r with column c set to v (added when absent)
RowWith(r, c, v) == [k \in DOMAIN r \cup {c} |-> IF k = c THEN v ELSE r[k]]

\* row r without column c
RowWithout(r, c) == [k \in DOMAIN r \ {c} |-> r[k]]

\* row r restricted to the columns of the sequence cols
RowOnly(r, cols) == [k \in Range(cols) |-> r[k]]

\* df[c] = values : overwrites the column in place, or appends it when new
SetColumn(df, c, values) ==
    [df EXCEPT
        !.columns = IF c \in Range(df.columns) THEN @ ELSE Append(@, c),
        !.rows = [i \in DOMAIN df.rows |-> RowWith(df.rows[i], c, values[i])]]

\* df.pop(c) : the frame without column c (the popped values are Column(df, c))
Column(df, c) == [i \in DOMAIN df.rows |-> df.rows[i][c]]

Pop(df, c) ==
    [df EXCEPT
        !.columns = SelectSeq(@, LAMBDA k : k # c),
        !.rows = [i \in DOMAIN df.rows |-> RowWithout(df.rows[i], c)]]

\* df.insert(0, c, values) for a column c the frame does not have
InsertFirst(df, c, values) ==
    [df EXCEPT
        !.columns = <<c>> \o @,
        !.rows = [i \in DOMAIN df.rows |-> RowWith(df.rows[i], c, values[i])]]

-----------------------------------------------------------------------------
(* Column names.  str.startswith is decided on the strings themselves: c    *)
(* starts with p iff c = p \o tail for one of the tails a column can have.  *)

NameTails ==
    {"", "plate_id", "Well", "treatment", "cell_type", "reference_index",
     "_AreaShape_Area", "AreaShape_Area", "precision", "well_position"}

StartsWith(c, p) == \E tail \in NameTails : c = p \o tail

\* pycytominer.infer_cp_features: the columns that start with a compartment
\* name, or with "Metadata_" when metadata is set, in column order
infer_cp_features(df, compartments, metadata) ==
    IF metadata
    THEN SelectSeq(df.columns, LAMBDA c : StartsWith(c, "Metadata_"))
    ELSE SelectSeq(df.columns,
                   LAMBDA c : \E x \in compartments : StartsWith(c, x))

DefaultCompartments == {"Nuclei", "Cells", "Cytoplasm"}

\* the mutation of split_meta_and_features: no column is filtered out of the
\* metadata list
split_all_columns_meta(df, compartments, metadata_tag) ==
    [meta_cols |-> df.columns,
     features_cols |-> infer_cp_features(df, compartments, FALSE)]

split_meta_and_features(df, compartments, metadata_tag) ==
    LET features_cols == infer_cp_features(df, compartments, FALSE)
        meta_cols ==
            IF metadata_tag = FALSE
            THEN SelectSeq(df.columns, LAMBDA c : c \notin Range(features_cols))
            ELSE infer_cp_features(df, compartments, metadata_tag)
    IN [meta_cols |-> meta_cols, features_cols |-> features_cols]

-----------------------------------------------------------------------------
(* Inputs of calculate_trt_map_batch_profiles *)

ProfileColumns ==
    <<"Metadata_plate_id", "Metadata_treatment", "Metadata_cell_type",
      "Cells_AreaShape_Area">>

Well(plate, treatment, cell_type) ==
    [Metadata_plate_id |-> plate, Metadata_treatment |-> treatment,
     Metadata_cell_type |-> cell_type, Cells_AreaShape_Area |-> "0.5"]

\* one plate of the screen: a healthy and a failing DMSO well and three
\* compound wells, the compounds given to cells in state cell_type
Plate(plate, cell_type) ==
    <<Well(plate, "DMSO", "healthy"), Well(plate, "DMSO", "failing"),
      Well(plate, "trt1", cell_type), Well(plate, "trt2", cell_type),
      Well(plate, "trt3", cell_type)>>

TwoPlates(cell_type) ==
    DataFrame(ProfileColumns,
              Plate("p_rplate_1", cell_type) \o Plate("p_rplate_2", cell_type))

OneWell ==
    {DataFrame(ProfileColumns, <<Well("p_rplate_1", t, c)>>) :
        t \in {"DMSO", "trt1"}, c \in {"failing", "healthy"}}

\* a frame that holds no CellProfiler feature column
NoFeatures ==
    DataFrame(<<"Metadata_treatment", "Metadata_cell_type">>,
              <<[Metadata_treatment |-> "trt1", Metadata_cell_type |-> "failing"]>>)

InputTables ==
    {DataFrame(ProfileColumns, <<>>)} \cup OneWell
        \cup {TwoPlates("failing"), TwoPlates("healthy")}

\* the i-th key of batched_profiles
BatchIds == <<"batch_1", "batch_1_original", "batch_2", "batch_1_m">>

FullConfig ==
    [general_configs |-> {"seed"},
     copairs_ap_configs |-> {"pos_sameby", "pos_diffby", "neg_diffby"},
     copairs_map_configs |-> {"same_by", "null_size", "threshold"}]

ConfigContents ==
    {FullConfig}
        \cup {[s \in DOMAIN FullConfig \ {gone} |-> FullConfig[s]] :
                gone \in DOMAIN FullConfig}
        \cup UNION {{[FullConfig EXCEPT ![s] = @ \ {k}] : k \in FullConfig[s]} :
                      s \in DOMAIN FullConfig}

\* configs: a dict, a path (whose file is missing, is no YAML, or loads to a
\* dict or to something else), or a value of another type
ConfigArgs ==
    {[kind |-> "dict", load |-> "dict", content |-> c] : c \in ConfigContents}
        \cup {[kind |-> "path", load |-> "dict", content |-> c] :
                c \in ConfigContents}
        \cup {[kind |-> k[1], load |-> k[2], content |-> FullConfig] :
                k \in {<<"path", "missing">>, <<"path", "invalid">>,
                       <<"path", "nondict">>, <<"other", "none">>}}

OutdirArgs ==
    {[kind |-> "Path", dir |-> "out", exists |-> TRUE],
     [kind |-> "Path", dir |-> "out", exists |-> FALSE],
     [kind |-> "str", dir |-> "out", exists |-> TRUE],
     [kind |-> "other", dir |-> "out", exists |-> TRUE]}

\* for each n, the dicts of n batches: n sequences of tables
TableLists(n) == [1..n -> InputTables]

-----------------------------------------------------------------------------
(* calculate_trt_map_batch_profiles, src/src/analysis_utils.py *)

\* the mutation of control_list: the positive control comes first
control_list_reversed ==
    <<[control_type |-> "positive", control_treatment |-> "DMSO",
       cell_state |-> "healthy"],
      [control_type |-> "negative", control_treatment |-> "DMSO",
       cell_state |-> "failing"]>>

control_list ==
    <<[control_type |-> "negative", control_treatment |-> "DMSO",
       cell_state |-> "failing"],
      [control_type |-> "positive", control_treatment |-> "DMSO",
       cell_state |-> "healthy"]>>

\* the mutation of Raise: the exception is noted and the loop goes on with
\* the next control
RaiseAndGoOn(e) == pc' = "for_control" /\ err' = e

Raise(e) == pc' = "raised" /\ err' = e

\* io_utils.load_config (the one definition of load_config in the sources):
\* resolve(strict=True) raises on a missing file, yaml.safe_load raises on a
\* file that is no YAML, otherwise what the file holds is returned
load_config(fpath) ==
    IF fpath.load = "missing"
    THEN [exc |-> "FileNotFoundError", type |-> "none", value |-> FullConfig]
    ELSE IF fpath.load = "invalid"
    THEN [exc |-> "YAMLError", type |-> "none", value |-> FullConfig]
    ELSE [exc |-> "none", type |-> fpath.load, value |-> fpath.content]

\* a variant that does not check `shuffled`
TypeCheckErrorNoShuffled ==
    LET cfg == IF configs.kind = "path"
               THEN load_config(configs)
               ELSE [exc |-> "none",
                     type |-> IF configs.kind = "dict" THEN "dict" ELSE "other",
                     value |-> configs.content]
    IN IF batched_profiles.type # "dict" THEN "TypeError"
       ELSE IF cfg.exc # "none" THEN cfg.exc
       ELSE IF cfg.type # "dict" THEN "TypeError"
       ELSE IF outdir_path.kind \notin {"str", "Path"} THEN "TypeError"
       ELSE "none"

\* lines 62-72: the exception of the type checks, "none" when all pass
TypeCheckError ==
    LET cfg == IF configs.kind = "path"
               THEN load_config(configs)
               ELSE [exc |-> "none",
                     type |-> IF configs.kind = "dict" THEN "dict" ELSE "other",
                     value |-> configs.content]
    IN IF batched_profiles.type # "dict" THEN "TypeError"
       ELSE IF cfg.exc # "none" THEN cfg.exc
       ELSE IF cfg.type # "dict" THEN "TypeError"
       ELSE IF outdir_path.kind \notin {"str", "Path"} THEN "TypeError"
       ELSE IF shuffled \notin {"True", "False"} THEN "TypeError"
       ELSE "none"

TypeCheck ==
    /\ pc = "check"
    /\ IF TypeCheckError # "none"
       THEN Raise(TypeCheckError) /\ loaded' = loaded
       ELSE pc' = "sections" /\ err' = err /\ loaded' = configs.content
    /\ UNCHANGED <<heap, caller, batched_profiles, configs, outdir_path,
                   shuffled, bi, ci, profile, replicate_aps, replicate_maps,
                   writes>>
    /\ UNCHANGED <<concat_vars, other_vars>>

\* lines 75-77: the three sections are read before the loop
ReadSections ==
    /\ pc = "sections"
    /\ IF {"general_configs", "copairs_ap_configs", "copairs_map_configs"}
            \subseteq DOMAIN loaded
       THEN pc' = "for_batch" /\ err' = err
       ELSE Raise("KeyError")
    /\ UNCHANGED <<heap, caller, calc_vars>>
    /\ UNCHANGED <<concat_vars, other_vars>>

\* the mutation of shuffled_label: the flag is not read
shuffled_label_fixed == "original"

\* lines 80-82
shuffled_label == IF shuffled = "True" THEN "shuffled" ELSE "original"

\* line 89: the next (batch_id, profile) of batched_profiles.items()
NextBatch ==
    /\ pc = "for_batch"
    /\ IF bi < Len(batched_profiles.items)
       THEN /\ bi' = bi + 1
            /\ profile' = batched_profiles.items[bi + 1].ref
            /\ ci' = 0
            /\ pc' = "for_control"
       ELSE /\ pc' = "done"
            /\ UNCHANGED <<bi, ci, profile>>
    /\ UNCHANGED <<heap, caller, err, batched_profiles, configs, outdir_path,
                   shuffled, loaded, replicate_aps, replicate_maps, writes>>
    /\ UNCHANGED <<concat_vars, other_vars>>

\* line 91: the next entry of control_list
NextControl ==
    /\ pc = "for_control"
    /\ IF ci < Len(control_list)
       THEN ci' = ci + 1 /\ pc' = "mark"
       ELSE ci' = ci /\ pc' = "for_batch"
    /\ UNCHANGED <<heap, caller, err, batched_profiles, configs, outdir_path,
                   shuffled, loaded, bi, profile, replicate_aps,
                   replicate_maps, writes>>
    /\ UNCHANGED <<concat_vars, other_vars>>

batch_id == batched_profiles.items[bi].batch_id
control == control_list[ci]

\* a variant that initialises the column only when the frame has none yet
InitReferenceIndexOnce(df) ==
    IF "Metadata_reference_index" \in Range(df.columns)
    THEN df
    ELSE SetColumn(df, "Metadata_reference_index", df.index)

\* line 96: profile["Metadata_reference_index"] = profile.index
InitReferenceIndex(df) == SetColumn(df, "Metadata_reference_index", df.index)

\* lines 99-103: -1 where neither the treatment nor the cell state is the
\* control's
MarkNonControl(df, control_treatment, cell_state) ==
    SetColumn(df, "Metadata_reference_index",
              [i \in DOMAIN df.rows |->
                  IF /\ df.rows[i]["Metadata_treatment"] # control_treatment
                     /\ df.rows[i]["Metadata_cell_type"] # cell_state
                  THEN -1
                  ELSE df.rows[i]["Metadata_reference_index"]])

\* lines 106-108: insert(0, ..., profile.pop(...))
MoveReferenceIndexFirst(df) ==
    InsertFirst(Pop(df, "Metadata_reference_index"), "Metadata_reference_index",
                Column(df, "Metadata_reference_index"))

\* a variant without the copy: the variable keeps naming the same frame
NoCopyOf(ref) == ref

\* line 93: profile.copy() is a new frame; the variable is rebound to it
CopyOf(ref) == Len(heap) + 1

\* lines 93-108
MarkReference ==
    /\ pc = "mark"
    /\ LET new == CopyOf(profile)
           copied == IF new > Len(heap) THEN Append(heap, heap[profile]) ELSE heap
           marked == MoveReferenceIndexFirst(
                         MarkNonControl(InitReferenceIndex(copied[new]),
                                        control.control_treatment,
                                        control.cell_state))
       IN /\ heap' = [copied EXCEPT ![new] = marked]
          /\ profile' = new
    /\ pc' = "ap"
    /\ UNCHANGED <<caller, err, batched_profiles, configs, outdir_path,
                   shuffled, loaded, bi, ci, replicate_aps, replicate_maps,
                   writes>>
    /\ UNCHANGED <<concat_vars, other_vars>>

\* df.loc[mask]: the rows at the positions in P, with their index labels
Loc(df, P) ==
    [df EXCEPT !.index = SelectPositions(df.index, P, 1),
               !.rows = SelectPositions(df.rows, P, 1)]

\* positions of the rows that are no reference: reference index -1
NonReference(df) ==
    {i \in DOMAIN df.rows : df.rows[i]["Metadata_reference_index"] = -1}

\* copairs.map.average_precision is external.  It answers with metadata of
\* rows of `meta` and a score column; which rows is its business: the
\* non-reference rows (the contract of the specification), every row, or none.
APAnswers(df) == {NonReference(df), DOMAIN df.rows, {}}

average_precision(df, meta_columns, P) ==
    LET picked == Loc(df, P)
    IN [columns |-> Append(meta_columns, "average_precision"),
        index |-> RangeIndex(Len(picked.rows)),
        rows |-> [i \in DOMAIN picked.rows |->
                    RowWith(RowOnly(picked.rows[i], meta_columns),
                            "average_precision", "score")]]

\* a variant that keeps every row
KeepControl(aps, control_treatment) == aps

\* lines 126-128: drop the rows of the control treatment
ExcludeControl(aps, control_treatment) ==
    Loc(aps, {i \in DOMAIN aps.rows :
                aps.rows[i]["Metadata_treatment"] # control_treatment})

\* lines 111-128
AveragePrecision ==
    /\ pc = "ap"
    /\ LET df == heap[profile]
           split == split_meta_and_features(df, DefaultCompartments, FALSE)
       IN IF split.features_cols = <<>>
          THEN Raise("AssertionError") /\ replicate_aps' = replicate_aps
          ELSE IF ~({"pos_sameby", "pos_diffby", "neg_diffby"}
                        \subseteq loaded["copairs_ap_configs"])
          THEN Raise("KeyError") /\ replicate_aps' = replicate_aps
          ELSE \/ Raise("CopairsError") /\ replicate_aps' = replicate_aps
               \/ \E P \in APAnswers(df) :
                    /\ replicate_aps' =
                         ExcludeControl(
                             average_precision(df, split.meta_cols, P),
                             control.control_treatment)
                    /\ pc' = "save_ap"
                    /\ err' = err
    /\ UNCHANGED <<heap, caller, batched_profiles, configs, outdir_path,
                   shuffled, loaded, bi, ci, profile, replicate_maps, writes>>
    /\ UNCHANGED <<concat_vars, other_vars>>

\* a variant that names the mAP file like the AP file
ScoresPathOneKind(outdir, batch, label, ctl, kind) ==
    outdir.dir \o "/" \o batch \o "_" \o label \o "_" \o ctl.control_type
        \o "_control_" \o ctl.cell_state \o "_" \o ctl.control_treatment
        \o "_AP_scores.csv"

\* lines 131-134 and 150-153: outdir_path / f"..."
ScoresPath(outdir, batch, label, ctl, kind) ==
    outdir.dir \o "/" \o batch \o "_" \o label \o "_" \o ctl.control_type
        \o "_control_" \o ctl.cell_state \o "_" \o ctl.control_treatment
        \o "_" \o kind \o "_scores.csv"

\* the exception of `outdir_path / name` followed by to_csv, "none" if none:
\* str has no / operator, and to_csv does not create the directory
SaveError ==
    IF outdir_path.kind = "str" THEN "TypeError"
    ELSE IF ~outdir_path.exists THEN "OSError"
    ELSE "none"

\* df.to_csv(path, index=False)
to_csv(df, path) == [path |-> path, columns |-> df.columns, rows |-> df.rows]

\* lines 131-138
SaveAP ==
    /\ pc = "save_ap"
    /\ IF SaveError # "none"
       THEN Raise(SaveError) /\ writes' = writes
       ELSE /\ writes' = Append(writes,
                  to_csv(replicate_aps,
                         ScoresPath(outdir_path, batch_id, shuffled_label,
                                    control, "AP")))
            /\ pc' = "map"
            /\ err' = err
    /\ UNCHANGED <<heap, caller, batched_profiles, configs, outdir_path,
                   shuffled, loaded, bi, ci, profile, replicate_aps,
                   replicate_maps>>
    /\ UNCHANGED <<concat_vars, other_vars>>

\* copairs.map.mean_average_precision is external: one row per value of the
\* sameby key (Metadata_treatment) in the AP table
mean_average_precision(aps) ==
    LET treatments ==
            Distinct([i \in DOMAIN aps.rows |-> aps.rows[i]["Metadata_treatment"]])
    IN DataFrame(<<"Metadata_treatment", "mean_average_precision",
                   "corrected_p_value">>,
                 [i \in DOMAIN treatments |->
                    [Metadata_treatment |-> treatments[i],
                     mean_average_precision |-> "score",
                     corrected_p_value |-> "p"]])

\* a variant that reads the seed with a default
MapKeysPresentSeedOptional ==
    {"same_by", "null_size", "threshold"} \subseteq loaded["copairs_map_configs"]

\* lines 143-146: copairs_map_configs[...] three times, general_configs["seed"]
MapKeysPresent ==
    /\ {"same_by", "null_size", "threshold"} \subseteq loaded["copairs_map_configs"]
    /\ "seed" \in loaded["general_configs"]

\* lines 141-147; the four keys are read to build the call
MeanAveragePrecision ==
    /\ pc = "map"
    /\ IF ~MapKeysPresent
       THEN Raise("KeyError") /\ replicate_maps' = replicate_maps
       ELSE \/ Raise("CopairsError") /\ replicate_maps' = replicate_maps
            \/ /\ replicate_maps' = mean_average_precision(replicate_aps)
               /\ pc' = "save_map"
               /\ err' = err
    /\ UNCHANGED <<heap, caller, batched_profiles, configs, outdir_path,
                   shuffled, loaded, bi, ci, profile, replicate_aps, writes>>
    /\ UNCHANGED <<concat_vars, other_vars>>

\* lines 150-157
SaveMAP ==
    /\ pc = "save_map"
    /\ IF SaveError # "none"
       THEN Raise(SaveError) /\ writes' = writes
       ELSE /\ writes' = Append(writes,
                  to_csv(replicate_maps,
                         ScoresPath(outdir_path, batch_id, shuffled_label,
                                    control, "mAP")))
            /\ pc' = "for_control"
            /\ err' = err
    /\ UNCHANGED <<heap, caller, batched_profiles, configs, outdir_path,
                   shuffled, loaded, bi, ci, profile, replicate_aps,
                   replicate_maps>>
    /\ UNCHANGED <<concat_vars, other_vars>>

NoTable == DataFrame(<<>>, <<>>)

\* a function that is not running
NotCalled == [called |-> FALSE]

OthersNotCalled ==
    /\ ann = NotCalled
    /\ spl = NotCalled
    /\ fsf = NotCalled
    /\ blp = NotCalled
    /\ lbc = NotCalled
    /\ pwc = NotCalled
    /\ first_run = NotCalled

\* the state at the call: the arguments, and nothing done yet
Called(tables, type, cfg, outdir, shuf) ==
    /\ heap = tables
    /\ caller = tables
    /\ batched_profiles =
         [type |-> type,
          items |-> [i \in DOMAIN tables |-> [batch_id |-> BatchIds[i], ref |-> i]]]
    /\ configs = cfg
    /\ outdir_path = outdir
    /\ shuffled = shuf
    /\ pc = "check"
    /\ err = "none"
    /\ loaded = FullConfig
    /\ bi = 0
    /\ ci = 0
    /\ profile = 0
    /\ replicate_aps = NoTable
    /\ replicate_maps = NoTable
    /\ writes = <<>>
    /\ batch_profile = <<>>
    /\ batch_profiles_concat = <<>>
    /\ updated_profiles = <<>>
    /\ cb = 0
    /\ cp = 0
    /\ cx = 0
    /\ OthersNotCalled

\* Calls with well-typed arguments and a complete configuration, over every
\* dict of up to MaxBatches tables; and calls with every combination of
\* argument types and configurations, over an empty and a one-batch dict.
Init ==
    \/ \E n \in 0..MaxBatches : \E tables \in TableLists(n) :
       \E outdir \in {o \in OutdirArgs : o.kind # "other"} :
       \E shuf \in {"True", "False"} :
          Called(tables, "dict",
                 [kind |-> "dict", load |-> "dict", content |-> FullConfig],
                 outdir, shuf)
    \/ \E tables \in {<<>>, <<TwoPlates("failing")>>, <<NoFeatures>>} :
       \E type \in {"dict", "list"} : \E cfg \in ConfigArgs :
       \E outdir \in OutdirArgs : \E shuf \in {"True", "False", "None"} :
          Called(tables, type, cfg, outdir, shuf)

Next ==
    \/ TypeCheck
    \/ ReadSections
    \/ NextBatch
    \/ NextControl
    \/ MarkReference
    \/ AveragePrecision
    \/ SaveAP
    \/ MeanAveragePrecision
    \/ SaveMAP

Spec == Init /\ [][Next]_vars

-----------------------------------------------------------------------------
(* Properties of calculate_trt_map_batch_profiles *)

\* the caller's table of the batch being processed
CallerTable == caller[batched_profiles.items[bi].ref]

IsAPWrite(w) == "average_precision" \in Range(w.columns)
IsMAPWrite(w) == "mean_average_precision" \in Range(w.columns)

\* the arguments pass lines 62-72
WellTyped ==
    /\ batched_profiles.type = "dict"
    /\ configs.kind = "dict" \/ (configs.kind = "path" /\ configs.load = "dict")
    /\ outdir_path.kind \in {"str", "Path"}
    /\ shuffled \in {"True", "False"}

C2_NoControlInAP ==
    /\ \A k \in DOMAIN writes :
          IsAPWrite(writes[k]) =>
              \A i \in DOMAIN writes[k].rows :
                  writes[k].rows[i]["Metadata_treatment"] # "DMSO"
    /\ pc \in {"save_ap", "map"} =>
          \A i \in DOMAIN replicate_aps.rows :
              replicate_aps.rows[i]["Metadata_treatment"] # control.control_treatment

\* the AP routine answered with every row of a frame that has DMSO wells
\* (the written rows are reference rows), and the AP table was written
C2_Witness ==
    /\ pc = "map"
    /\ \E i \in DOMAIN heap[profile].rows :
          heap[profile].rows[i]["Metadata_treatment"] = "DMSO"
    /\ writes # <<>>
    /\ IsAPWrite(writes[Len(writes)])
    /\ \E i \in DOMAIN writes[Len(writes)].rows :
          writes[Len(writes)].rows[i]["Metadata_reference_index"] # -1

\* the AP routine answered by its contract: one row per non-reference row
APByContract ==
    replicate_aps =
        ExcludeControl(
            average_precision(heap[profile],
                split_meta_and_features(heap[profile], DefaultCompartments,
                                        FALSE).meta_cols,
                NonReference(heap[profile])),
            control.control_treatment)

\* C3: for a batch of two plates, each with a healthy and a failing DMSO well
\* and three compound wells, the negative-control pass writes an AP table of
\* 6 compound rows and a mAP table of 3 rows (AP routine answering by its
\* contract).
C3_TwoPlateScenario ==
    (/\ pc = "for_control"
     /\ ci = 1
     /\ CallerTable \in {TwoPlates("failing"), TwoPlates("healthy")}
     /\ APByContract)
    => /\ Len(writes) >= 2
       /\ IsAPWrite(writes[Len(writes) - 1])
       /\ Len(writes[Len(writes) - 1].rows) = 6
       /\ \A i \in DOMAIN writes[Len(writes) - 1].rows :
             writes[Len(writes) - 1].rows[i]["Metadata_treatment"]
                 \in {"trt1", "trt2", "trt3"}
       /\ IsMAPWrite(writes[Len(writes)])
       /\ Len(writes[Len(writes)].rows) = 3

\* C4: the caller's frames are, at every point of the call and after it, what
\* they were at the call.
C4_CallerUntouched ==
    \A i \in DOMAIN batched_profiles.items :
        heap[batched_profiles.items[i].ref] = caller[batched_profiles.items[i].ref]

\* both passes over a non-empty batch are done, on copies
C4_Witness ==
    /\ pc = "done"
    /\ Len(writes) >= 4
    /\ profile > Len(caller)
    /\ heap[profile].rows # <<>>
    /\ "Metadata_reference_index" \in Range(heap[profile].columns)

\* the four files of a batch, for a label
FilesOf(batch, label) ==
    {outdir_path.dir \o "/" \o batch \o "_" \o label \o tail :
        tail \in {"_negative_control_failing_DMSO_AP_scores.csv",
                  "_negative_control_failing_DMSO_mAP_scores.csv",
                  "_positive_control_healthy_DMSO_AP_scores.csv",
                  "_positive_control_healthy_DMSO_mAP_scores.csv"}}

WrittenPaths == {writes[k].path : k \in DOMAIN writes}

\* C5: no path is written twice in a run, and a run that completes has
\* written exactly the four files of every batch.
C5_FourFilesPerBatch ==
    /\ Cardinality(WrittenPaths) = Len(writes)
    /\ pc = "done" =>
          /\ Len(writes) = 4 * Len(batched_profiles.items)
          /\ WrittenPaths =
                UNION {FilesOf(batched_profiles.items[i].batch_id,
                               IF shuffled = "True" THEN "shuffled" ELSE "original") :
                          i \in DOMAIN batched_profiles.items}

C5_Witness ==
    /\ pc = "done"
    /\ Len(batched_profiles.items) = 2
    /\ Len(writes) = 8

\* some argument has a type the function does not take
BadArgument ==
    \/ batched_profiles.type # "dict"
    \/ ~(configs.kind = "dict" \/ (configs.kind = "path" /\ configs.load = "dict"))
    \/ outdir_path.kind \notin {"str", "Path"}
    \/ shuffled \notin {"True", "False"}

C7_StrOutdirAccepted ==
    (/\ outdir_path.kind = "str"
     /\ outdir_path.exists
     /\ WellTyped
     /\ configs.content = FullConfig
     /\ batched_profiles.items # <<>>
     /\ pc = "raised")
    => err \in {"CopairsError", "AssertionError"}

ConfigLacksSection ==
    DOMAIN configs.content # DOMAIN FullConfig

ConfigLacksKey ==
    \/ ConfigLacksSection
    \/ \E sec \in DOMAIN FullConfig : configs.content[sec] # FullConfig[sec]

\* C8 as stated: with a key missing the call never completes normally,
\* whatever batched_profiles is.
C8_MissingKeyFails ==
    (WellTyped /\ ConfigLacksKey) => pc # "done"

\* C8 amended: with a section missing the call fails with KeyError before
\* the loop; with another key missing and batched_profiles not empty it fails
\* in the first control pass of the first batch, with KeyError unless an
\* earlier step of that pass raised, and having written at most the first AP
\* file; with batched_profiles empty it completes and writes nothing.
C8_MissingKey ==
    (WellTyped /\ ConfigLacksKey) =>
        /\ pc = "done" =>
              /\ batched_profiles.items = <<>>
              /\ ~ConfigLacksSection
              /\ writes = <<>>
        /\ (pc = "raised" /\ ConfigLacksSection) =>
              /\ err = "KeyError"
              /\ bi = 0
              /\ writes = <<>>
        /\ (pc = "raised" /\ ~ConfigLacksSection) =>
              /\ bi = 1
              /\ ci = 1
              /\ Len(writes) <= 1
              /\ err \in {"KeyError", "AssertionError", "CopairsError",
                          "TypeError", "OSError"}
              /\ (err = "KeyError" /\ writes = <<>>) =>
                    configs.content["copairs_ap_configs"]
                        # FullConfig["copairs_ap_configs"]
        /\ batched_profiles.items # <<>> => pc # "done"

\* the seed is missed only after the first AP file is written
C8_Witness ==
    /\ pc = "raised"
    /\ err = "KeyError"
    /\ WellTyped
    /\ ~ConfigLacksSection
    /\ "seed" \notin configs.content["general_configs"]
    /\ Len(writes) = 1

-----------------------------------------------------------------------------
(* concat_batch_profiles, src/src/data_utils.py *)

Digits == <<"0", "1", "2", "3", "4", "5", "6", "7", "8", "9">>

RECURSIVE str(_)
\* the decimal numeral of n >= 0, as an f-string writes it
str(n) ==
    IF n < 10 THEN Digits[n + 1]
    ELSE str(n \div 10) \o Digits[(n % 10) + 1]

\* the keys of platemap_dict, in dict order
PlatemapNames == <<"p", "p_rplate_1">>

\* the profile registered at index x - 1 of platemap p of batch b: zero to two
\* wells, each with a label of its own
PlateTable(b, p, x) ==
    DataFrame(<<"Metadata_Well", "Metadata_treatment", "Metadata_cell_type",
                "Cells_AreaShape_Area">>,
              [i \in 1..((b + p + x) % 3) |->
                  [Metadata_Well |-> BatchIds[b] \o ":" \o PlatemapNames[p]
                                        \o ":" \o str(x) \o ":" \o str(i),
                   Metadata_treatment |-> IF i = 1 THEN "DMSO" ELSE "trt1",
                   Metadata_cell_type |-> "failing",
                   Cells_AreaShape_Area |-> "0.5"]])

\* shape[b][p] is the number of profiles under platemap p of batch b
PlatemapShapes ==
    UNION {[1..m -> 0..MaxPlates] : m \in 0..Len(PlatemapNames)}

Shapes == UNION {[1..n -> PlatemapShapes] : n \in 0..MaxBatches}

FramesOfPlatemap(shape, b, p) == [x \in 1..shape[b][p] |-> PlateTable(b, p, x)]

FramesOfBatch(shape, b) ==
    Flatten([p \in 1..Len(shape[b]) |-> FramesOfPlatemap(shape, b, p)])

InputFrames(shape) == Flatten([b \in 1..Len(shape) |-> FramesOfBatch(shape, b)])

\* the reference of the frame at (b, p, x): frames are numbered in input order
RefOf(shape, b, p, x) ==
    Len(Flatten([c \in 1..(b - 1) |-> FramesOfBatch(shape, c)]))
        + Len(Flatten([q \in 1..(p - 1) |-> FramesOfPlatemap(shape, b, q)]))
        + x

BatchProfile(shape) ==
    [b \in 1..Len(shape) |->
        [batch_id |-> BatchIds[b],
         platemaps |->
            [p \in 1..Len(shape[b]) |->
                [platemap_name |-> PlatemapNames[p],
                 profiles |-> [x \in 1..shape[b][p] |-> RefOf(shape, b, p, x)]]]]]

\* a variant that leaves the replicate index out of the identifier
metadata_plate_id_no_index(batch, platemap_name, idx) ==
    batch \o "_" \o platemap_name \o "_rplate"

\* line 175: f"{batch_id}_{platemap_name}_rplate_{idx+1}"
metadata_plate_id(batch, platemap_name, idx) ==
    batch \o "_" \o platemap_name \o "_rplate_" \o str(idx + 1)

\* pd.concat(frames, ignore_index=...): the union of the columns in order of
\* appearance, the rows one frame after the other, and either a new row index
\* 0..n-1 or the frames' own row labels
pd_concat(frames, ignore_index) ==
    LET columns == Distinct(Flatten([k \in DOMAIN frames |-> frames[k].columns]))
        rows == Flatten([k \in DOMAIN frames |->
                    [i \in DOMAIN frames[k].rows |->
                        [c \in Range(columns) |->
                            IF c \in DOMAIN frames[k].rows[i]
                            THEN frames[k].rows[i][c]
                            ELSE "NaN"]]])
    IN [columns |-> columns,
        index |-> IF ignore_index
                  THEN RangeIndex(Len(rows))
                  ELSE Flatten([k \in DOMAIN frames |-> frames[k].index]),
        rows |-> rows]

\* a variant that keeps the frames' own row labels
ConcatKeepIndex(frames) == pd_concat(frames, FALSE)

\* lines 188-190: pd.concat(updated_profiles, ignore_index=True)
Concat(frames) == pd_concat(frames, TRUE)

\* line 167: the next (batch_id, platemap_dict), or line 192
ConcatNextBatch ==
    /\ pc = "concat_batch"
    /\ IF cb < Len(batch_profile)
       THEN /\ cb' = cb + 1
            /\ updated_profiles' = <<>>
            /\ cp' = 0
            /\ pc' = "concat_platemap"
       ELSE /\ pc' = "concat_done"
            /\ UNCHANGED <<cb, cp, updated_profiles>>
    /\ UNCHANGED <<heap, caller, err, calc_vars, other_vars, batch_profile,
                   batch_profiles_concat, cx>>

\* line 172: the next (platemap_name, list_of_profiles)
ConcatNextPlatemap ==
    /\ pc = "concat_platemap"
    /\ IF cp < Len(batch_profile[cb].platemaps)
       THEN cp' = cp + 1 /\ cx' = 0 /\ pc' = "concat_profile"
       ELSE UNCHANGED <<cp, cx>> /\ pc' = "concat_join"
    /\ UNCHANGED <<heap, caller, err, calc_vars, other_vars, batch_profile,
                   batch_profiles_concat, updated_profiles, cb>>

\* lines 173-184: the next (idx, profile): copy it, put the plate identifier
\* in front, append the copy
ConcatNextProfile ==
    /\ pc = "concat_profile"
    /\ LET platemap == batch_profile[cb].platemaps[cp]
       IN IF cx < Len(platemap.profiles)
          THEN LET source == platemap.profiles[cx + 1]
                   new == CopyOf(source)
                   copied == IF new > Len(heap)
                             THEN Append(heap, heap[source])
                             ELSE heap
                   id == metadata_plate_id(batch_profile[cb].batch_id,
                                           platemap.platemap_name, cx)
               IN IF "Metadata_plate_id" \in Range(copied[new].columns)
                  THEN /\ Raise("ValueError")
                       /\ heap' = copied
                       /\ UNCHANGED <<cx, updated_profiles>>
                  ELSE /\ heap' = [copied EXCEPT ![new] =
                              InsertFirst(@, "Metadata_plate_id",
                                          [i \in DOMAIN @.rows |-> id])]
                       /\ updated_profiles' = Append(updated_profiles, new)
                       /\ cx' = cx + 1
                       /\ UNCHANGED <<pc, err>>
          ELSE /\ pc' = "concat_platemap"
               /\ UNCHANGED <<heap, err, cx, updated_profiles>>
    /\ UNCHANGED <<caller, calc_vars, other_vars, batch_profile, batch_profiles_concat,
                   cb, cp>>

\* a variant without the test of line 187: every batch gets an entry
ConcatJoinAlways ==
    /\ pc = "concat_join"
    /\ heap' = Append(heap,
           Concat([k \in DOMAIN updated_profiles |-> heap[updated_profiles[k]]]))
    /\ batch_profiles_concat' =
           Append(batch_profiles_concat,
                  [batch_id |-> batch_profile[cb].batch_id,
                   ref |-> Len(heap) + 1])
    /\ pc' = "concat_batch"
    /\ UNCHANGED <<caller, err, calc_vars, other_vars, batch_profile, updated_profiles,
                   cb, cp, cx>>

\* lines 187-190: a batch with frames gets its concatenated frame
ConcatJoin ==
    /\ pc = "concat_join"
    /\ IF updated_profiles # <<>>
       THEN /\ heap' = Append(heap,
                  Concat([k \in DOMAIN updated_profiles |->
                             heap[updated_profiles[k]]]))
            /\ batch_profiles_concat' =
                  Append(batch_profiles_concat,
                         [batch_id |-> batch_profile[cb].batch_id,
                          ref |-> Len(heap) + 1])
       ELSE UNCHANGED <<heap, batch_profiles_concat>>
    /\ pc' = "concat_batch"
    /\ UNCHANGED <<caller, err, calc_vars, other_vars, batch_profile, updated_profiles,
                   cb, cp, cx>>

\* concat_batch_profiles called on a nested dict of every shape within the
\* bounds
InitConcat ==
    \E shape \in Shapes :
        /\ heap = InputFrames(shape)
        /\ caller = InputFrames(shape)
        /\ batch_profile = BatchProfile(shape)
        /\ batch_profiles_concat = <<>>
        /\ updated_profiles = <<>>
        /\ cb = 0
        /\ cp = 0
        /\ cx = 0
        /\ pc = "concat_batch"
        /\ err = "none"
        /\ batched_profiles = [type |-> "dict", items |-> <<>>]
        /\ configs = [kind |-> "dict", load |-> "dict", content |-> FullConfig]
        /\ outdir_path = [kind |-> "Path", dir |-> "out", exists |-> TRUE]
        /\ shuffled = "False"
        /\ loaded = FullConfig
        /\ bi = 0
        /\ ci = 0
        /\ profile = 0
        /\ replicate_aps = NoTable
        /\ replicate_maps = NoTable
        /\ writes = <<>>
        /\ OthersNotCalled

NextConcat ==
    \/ ConcatNextBatch
    \/ ConcatNextPlatemap
    \/ ConcatNextProfile
    \/ ConcatJoin

SpecConcat == InitConcat /\ [][NextConcat]_vars

-----------------------------------------------------------------------------
(* Properties of concat_batch_profiles *)

\* the input batch that an entry of the result belongs to
InputBatch(entry) ==
    CHOOSE b \in DOMAIN batch_profile :
        batch_profile[b].batch_id = entry.batch_id

\* the references of the input frames of batch b, platemap by platemap and
\* index by index
SourcesInOrder(b) ==
    Flatten([p \in DOMAIN batch_profile[b].platemaps |->
                batch_profile[b].platemaps[p].profiles])

\* the (platemap, index) pairs of batch b whose frame, as the caller passed
\* it, holds the row r (less its plate identifier)
SourcesOfRow(b, r) ==
    {<<p, x>> \in {<<p, x>> \in (DOMAIN batch_profile[b].platemaps) \X (1..(MaxPlates + 1)) :
                      x \in DOMAIN batch_profile[b].platemaps[p].profiles} :
        RowWithout(r, "Metadata_plate_id")
            \in Range(caller[batch_profile[b].platemaps[p].profiles[x]].rows)}

\* the identifiers of one batch over platemap names that contain the
\* separator or end in a digit, and indices with one and two digits
ProbedIds ==
    {<<n, x, metadata_plate_id("batch_1", n, x)>> :
        n \in Range(PlatemapNames) \cup {"p_rplate_1_rplate_1", "p1", "p_1"},
        x \in 0..(MaxPlates + 9)}

\* C9: within a batch, different (platemap, index) pairs get different plate
\* identifiers; the identifier is the first column of the concatenated frame,
\* and every row carries the identifier {batch}_{platemap}_rplate_{index+1}
\* of the frame it came from.
C9_UniquePlateId ==
    pc = "concat_done" =>
        /\ \A a \in ProbedIds, b \in ProbedIds : a[3] = b[3] => a = b
        /\ \A k \in DOMAIN batch_profiles_concat :
              LET out == heap[batch_profiles_concat[k].ref]
                  b == InputBatch(batch_profiles_concat[k])
              IN /\ out.columns[1] = "Metadata_plate_id"
                 /\ \A i \in DOMAIN out.rows :
                       /\ Cardinality(SourcesOfRow(b, out.rows[i])) = 1
                       /\ \A src \in SourcesOfRow(b, out.rows[i]) :
                             out.rows[i]["Metadata_plate_id"] =
                                 batch_profile[b].batch_id \o "_"
                                     \o batch_profile[b].platemaps[src[1]].platemap_name
                                     \o "_rplate_" \o Digits[src[2] + 1]
                 /\ \A i \in DOMAIN out.rows, j \in DOMAIN out.rows :
                       out.rows[i]["Metadata_plate_id"] = out.rows[j]["Metadata_plate_id"]
                           => SourcesOfRow(b, out.rows[i]) = SourcesOfRow(b, out.rows[j])

\* a batch whose concatenated frame holds rows of three source frames
C9_Witness ==
    /\ pc = "concat_done"
    /\ \E k \in DOMAIN batch_profiles_concat :
          Cardinality({heap[batch_profiles_concat[k].ref].rows[i]["Metadata_plate_id"] :
                          i \in DOMAIN heap[batch_profiles_concat[k].ref].rows}) >= 3

\* the batches of the input that have a frame, in input order
BatchesWithFrames ==
    SelectSeq([b \in DOMAIN batch_profile |-> b],
              LAMBDA b : SourcesInOrder(b) # <<>>)

\* C10: the concatenated frame of a batch holds the rows of the batch's input
\* frames, platemap by platemap and index by index, as many as the inputs
\* have together, under the row index 0..n-1; the input frames stay as they
\* were.
C10_RowsInOrder ==
    /\ \A r \in DOMAIN caller : heap[r] = caller[r]
    /\ pc = "concat_done" =>
          /\ Len(batch_profiles_concat) = Len(BatchesWithFrames)
          /\ \A k \in DOMAIN batch_profiles_concat :
                LET out == heap[batch_profiles_concat[k].ref]
                    b == BatchesWithFrames[k]
                    inputs == [n \in DOMAIN SourcesInOrder(b) |->
                                  caller[SourcesInOrder(b)[n]].rows]
                IN /\ batch_profiles_concat[k].batch_id = batch_profile[b].batch_id
                   /\ Len(out.rows) = Len(Flatten(inputs))
                   /\ [i \in DOMAIN out.rows |->
                          RowWithout(out.rows[i], "Metadata_plate_id")]
                        = Flatten(inputs)
                   /\ out.index = [i \in DOMAIN out.rows |-> i - 1]

\* a batch with frames under both platemaps and at least three rows
C10_Witness ==
    /\ pc = "concat_done"
    /\ \E k \in DOMAIN batch_profiles_concat :
          LET b == InputBatch(batch_profiles_concat[k])
          IN /\ Len(batch_profile[b].platemaps) = 2
             /\ \A p \in DOMAIN batch_profile[b].platemaps :
                   Len(batch_profile[b].platemaps[p].profiles) = 2
             /\ Len(heap[batch_profiles_concat[k].ref].rows) >= 3

-----------------------------------------------------------------------------
(* annotate_batch (src/src/data_utils.py 54-137) *)

\* calculate_trt_map_batch_profiles and concat_batch_profiles are not running
CoreNotCalled ==
    /\ heap = <<>>
    /\ caller = <<>>
    /\ batched_profiles = [type |-> "dict", items |-> <<>>]
    /\ configs = [kind |-> "dict", load |-> "dict", content |-> FullConfig]
    /\ outdir_path = [kind |-> "Path", dir |-> "out", exists |-> TRUE]
    /\ shuffled = "False"
    /\ loaded = FullConfig
    /\ bi = 0
    /\ ci = 0
    /\ profile = 0
    /\ replicate_aps = NoTable
    /\ replicate_maps = NoTable
    /\ writes = <<>>
    /\ batch_profile = <<>>
    /\ batch_profiles_concat = <<>>
    /\ updated_profiles = <<>>
    /\ cb = 0
    /\ cp = 0
    /\ cx = 0
    /\ first_run = NotCalled

core_vars == <<heap, caller, calc_vars, concat_vars, first_run>>

\* the join keys the notebooks pass: <<platemap column, profile column>>
join_on == <<"Metadata_well_position", "Metadata_Well">>

\* a plate's profile with one row per well of wells
WellProfile(wells) ==
    DataFrame(<<"Metadata_Well", "Cells_AreaShape_Area">>,
              [i \in DOMAIN wells |->
                  [Metadata_Well |-> wells[i], Cells_AreaShape_Area |-> "0.5"]])

\* a platemap CSV with one row per well of wells
PlatemapCsv(wells) ==
    DataFrame(<<"well_position", "treatment">>,
              [i \in DOMAIN wells |->
                  [well_position |-> wells[i], treatment |-> "trt1"]])

\* the nested dicts of n batches: a batch has platemap p1, or p1 and p2, and
\* a platemap has a list of up to two profiles
AnnotateInputs(n) ==
    LET lists == {<<>>, <<WellProfile(<<"A01">>)>>,
                  <<WellProfile(<<"A01", "A02">>)>>,
                  <<WellProfile(<<"A01">>), WellProfile(<<"A01", "A02">>)>>}
        dicts ==
            {<<[platemap_name |-> "p1", profiles |-> l]>> : l \in lists}
            \cup {<<[platemap_name |-> "p1", profiles |-> l1],
                    [platemap_name |-> "p2", profiles |-> l2]>> :
                    l1 \in lists, l2 \in lists}
    IN {[b \in 1..n |-> [batch_id |-> BatchIds[b], platemaps |-> f[b]]] :
           f \in [1..n -> dicts]}

MissingFile == [exists |-> FALSE]

CsvFile(df) == [exists |-> TRUE, content |-> df]

\* metadata_dir: a pathlib.Path and the {platemap_name}.csv files it holds
\* (p1.csv lists every well, lacks well A02, or lists well A01 twice), or a
\* str, which the signature also allows
MetadataDirs ==
    {[kind |-> "Path", files |-> [p1 |-> f1, p2 |-> f2]] :
        f1 \in {MissingFile, CsvFile(PlatemapCsv(<<"A01", "A02">>)),
                CsvFile(PlatemapCsv(<<"A01">>)),
                CsvFile(PlatemapCsv(<<"A01", "A01", "A02">>))},
        f2 \in {MissingFile, CsvFile(PlatemapCsv(<<"A01", "A02">>))}}
    \cup {[kind |-> "str",
           files |-> [p1 |-> CsvFile(PlatemapCsv(<<"A01", "A02">>)),
                      p2 |-> CsvFile(PlatemapCsv(<<"A01", "A02">>))]]}

\* the file {platemap_name}.csv of metadata_dir
PlatemapFile(dir, platemap_name) ==
    IF platemap_name = "p1" THEN dir.files.p1 ELSE dir.files.p2

\* pycytominer.annotate adds "Metadata_" to the platemap's column names
MetadataPrefixed(c) == IF StartsWith(c, "Metadata_") THEN c ELSE "Metadata_" \o c

\* pycytominer.annotate: the platemap inner-joined with the profile on
\* on = <<platemap column, profile column>>, platemap rows first, then
\* lines 118-119: the duplicated column names dropped
annotate(profiles, platemap, on) ==
    LET PrefixedRow(prow, cols) ==
            [k \in {MetadataPrefixed(c) : c \in Range(cols)} |->
                prow[CHOOSE c \in Range(cols) : MetadataPrefixed(c) = k]]
        pcols == [i \in DOMAIN platemap.columns |->
                     MetadataPrefixed(platemap.columns[i])]
        kept == SelectSeq(pcols, LAMBDA c : c # on[1])
        Merged(prow, r) ==
            [k \in Range(kept) \cup DOMAIN r |->
                IF k \in DOMAIN r THEN r[k] ELSE prow[k]]
        Matches(prow) ==
            LET m == SelectSeq(profiles.rows,
                               LAMBDA r : r[on[2]] = prow[on[1]])
            IN [j \in DOMAIN m |-> Merged(prow, m[j])]
        rows == Flatten([i \in DOMAIN platemap.rows |->
                    Matches(PrefixedRow(platemap.rows[i], platemap.columns))])
    IN DataFrame(Distinct(kept \o profiles.columns), rows)

\* the mutation of RowCountChanged: the check of line 122 never fires
RowCountNeverChanged(profile_df, annotated_df) == FALSE

\* line 122: profile.shape[0] != annotated_df.shape[0]
RowCountChanged(profile_df, annotated_df) ==
    Len(profile_df.rows) # Len(annotated_df.rows)

\* what the caller holds while annotate_batch has not returned
NothingReturned == [returned |-> FALSE]

AnnotateRaise(e) ==
    /\ pc' = "raised"
    /\ err' = e
    /\ UNCHANGED ann

\* lines 98-100 and 137: the next batch of profiles.items(), or the return
AnnotateNextBatch ==
    /\ pc = "ann_batch"
    /\ IF ann.b < Len(ann.profiles)
       THEN /\ ann' = [ann EXCEPT !.b = @ + 1, !.p = 0, !.annotated_batch = <<>>]
            /\ pc' = "ann_platemap"
       ELSE /\ ann' = [ann EXCEPT !.result =
                          [returned |-> TRUE,
                           value |-> ann.annotated_batch_profiles]]
            /\ pc' = "ann_done"
    /\ UNCHANGED <<err, core_vars, spl, fsf, blp, lbc, pwc>>

\* lines 102-110 and 135: the next platemap of the batch is read from
\* metadata_dir, or the batch is stored under its batch id
AnnotateNextPlatemap ==
    /\ pc = "ann_platemap"
    /\ LET platemaps == ann.profiles[ann.b].platemaps
       IN IF ann.p < Len(platemaps)
          THEN LET file == PlatemapFile(ann.metadata_dir,
                                        platemaps[ann.p + 1].platemap_name)
               IN IF ann.metadata_dir.kind = "str"
                  THEN AnnotateRaise("TypeError")
                  ELSE IF ~file.exists
                  THEN AnnotateRaise("FileNotFoundError")
                  ELSE /\ ann' = [ann EXCEPT !.p = @ + 1, !.x = 0,
                                     !.platemap_df = file.content,
                                     !.annotated_profiles = <<>>]
                       /\ pc' = "ann_profile"
                       /\ err' = err
          ELSE /\ ann' = [ann EXCEPT !.annotated_batch_profiles =
                             Append(@, [batch_id |-> ann.profiles[ann.b].batch_id,
                                        platemaps |-> ann.annotated_batch])]
               /\ pc' = "ann_batch"
               /\ err' = err
    /\ UNCHANGED <<core_vars, spl, fsf, blp, lbc, pwc>>

\* lines 111-132: the next profile of the list is annotated, checked and
\* appended, or the list is stored under its platemap name
AnnotateNextProfile ==
    /\ pc = "ann_profile"
    /\ LET platemap == ann.profiles[ann.b].platemaps[ann.p]
       IN IF ann.x < Len(platemap.profiles)
          THEN LET profile_df == platemap.profiles[ann.x + 1]
                   annotated_df ==
                       annotate(profile_df, ann.platemap_df, join_on)
               IN IF RowCountChanged(profile_df, annotated_df)
                  THEN /\ pc' = "raised"
                       /\ err' = "ValueError"
                       /\ ann' = [ann EXCEPT !.x = @ + 1]
                  ELSE /\ ann' = [ann EXCEPT !.x = @ + 1,
                                     !.annotated_profiles =
                                         Append(@, annotated_df)]
                       /\ pc' = "ann_profile"
                       /\ err' = err
          ELSE /\ ann' = [ann EXCEPT !.annotated_batch =
                             Append(@, [platemap_name |-> platemap.platemap_name,
                                        profiles |-> ann.annotated_profiles])]
               /\ pc' = "ann_platemap"
               /\ err' = err
    /\ UNCHANGED <<core_vars, spl, fsf, blp, lbc, pwc>>

\* annotate_batch called on every nested dict within the bounds, with every
\* metadata directory
InitAnnotate ==
    \E n \in 0..MaxBatches : \E profiles \in AnnotateInputs(n) :
    \E dir \in MetadataDirs :
        /\ ann = [profiles |-> profiles,
                  metadata_dir |-> dir,
                  annotated_batch_profiles |-> <<>>,
                  annotated_batch |-> <<>>,
                  annotated_profiles |-> <<>>,
                  platemap_df |-> NoTable,
                  b |-> 0, p |-> 0, x |-> 0,
                  result |-> NothingReturned]
        /\ pc = "ann_batch"
        /\ err = "none"
        /\ CoreNotCalled
        /\ spl = NotCalled
        /\ fsf = NotCalled
        /\ blp = NotCalled
        /\ lbc = NotCalled
        /\ pwc = NotCalled

NextAnnotate ==
    \/ AnnotateNextBatch
    \/ AnnotateNextPlatemap
    \/ AnnotateNextProfile

SpecAnnotate == InitAnnotate /\ [][NextAnnotate]_vars

-----------------------------------------------------------------------------
(* Properties of annotate_batch *)

AnnotateEnded == pc \in {"ann_done", "raised"}

\* the returned structure has the batches, platemaps and list lengths of the
\* input, and every table has as many rows as the profile at its place
SameRowCounts(value, profiles) ==
    /\ Len(value) = Len(profiles)
    /\ \A b \in DOMAIN profiles :
        /\ value[b].batch_id = profiles[b].batch_id
        /\ Len(value[b].platemaps) = Len(profiles[b].platemaps)
        /\ \A p \in DOMAIN profiles[b].platemaps :
            LET out == value[b].platemaps[p]
                in == profiles[b].platemaps[p]
            IN /\ out.platemap_name = in.platemap_name
               /\ Len(out.profiles) = Len(in.profiles)
               /\ \A x \in DOMAIN in.profiles :
                     Len(out.profiles[x].rows) = Len(in.profiles[x].rows)

\* the join of the profile the loop is at changed its row count
JoinChangedRowCount ==
    /\ ann.b \in DOMAIN ann.profiles
    /\ ann.p \in DOMAIN ann.profiles[ann.b].platemaps
    /\ ann.x \in DOMAIN ann.profiles[ann.b].platemaps[ann.p].profiles
    /\ LET profile_df == ann.profiles[ann.b].platemaps[ann.p].profiles[ann.x]
       IN Len(annotate(profile_df, ann.platemap_df, join_on).rows)
             # Len(profile_df.rows)

\* the platemap the loop is about to read has no CSV file in metadata_dir
PlatemapCsvMissing ==
    /\ ann.b \in DOMAIN ann.profiles
    /\ ann.p + 1 \in DOMAIN ann.profiles[ann.b].platemaps
    /\ ~PlatemapFile(ann.metadata_dir,
            ann.profiles[ann.b].platemaps[ann.p + 1].platemap_name).exists

-----------------------------------------------------------------------------
(* split_meta_and_features called on its own (src/src/data_utils.py 13-51, *)
(* the same code as src/utils/data_utils.py 13-50)                         *)

\* column names of a profile: tagged metadata, features, untagged metadata
SplitColumnNames ==
    {"Metadata_Well", "Metadata_treatment", "Cells_AreaShape_Area",
     "Nuclei_AreaShape_Area", "plate_id"}

\* the tables of up to MaxColumns distinct columns
SplitTables ==
    {DataFrame(cols, <<>>) :
        cols \in {c \in UNION {[1..n -> SplitColumnNames] : n \in 0..MaxColumns} :
                     \A i, j \in DOMAIN c : i # j => c[i] # c[j]}}

\* the whole call: infer_cp_features asserts that it found a column
SplitMetaAndFeatures ==
    /\ pc = "split"
    /\ LET split == split_meta_and_features(spl.profile, spl.compartments,
                                            spl.metadata_tag)
       IN IF split.features_cols = <<>>
             \/ (spl.metadata_tag /\ split.meta_cols = <<>>)
          THEN /\ pc' = "raised"
               /\ err' = "AssertionError"
               /\ spl' = spl
          ELSE /\ pc' = "split_done"
               /\ err' = err
               /\ spl' = [spl EXCEPT !.result =
                            [returned |-> TRUE,
                             meta_cols |-> split.meta_cols,
                             features_cols |-> split.features_cols]]
    /\ UNCHANGED <<core_vars, ann, fsf, blp, lbc, pwc>>

InitSplit ==
    \E df \in SplitTables : \E tag \in BOOLEAN :
        /\ spl = [profile |-> df, compartments |-> DefaultCompartments,
                  metadata_tag |-> tag, result |-> NothingReturned]
        /\ pc = "split"
        /\ err = "none"
        /\ CoreNotCalled
        /\ ann = NotCalled
        /\ fsf = NotCalled
        /\ blp = NotCalled
        /\ lbc = NotCalled
        /\ pwc = NotCalled

NextSplit == SplitMetaAndFeatures

SpecSplit == InitSplit /\ [][NextSplit]_vars

-----------------------------------------------------------------------------
(* Properties of split_meta_and_features *)

\* the column carries the metadata tag or the name of a compartment
Prefixed(c) ==
    \/ StartsWith(c, "Metadata_")
    \/ \E x \in DefaultCompartments : StartsWith(c, x)

-----------------------------------------------------------------------------
(* find_shared_features (src/utils/data_utils.py 52-102) *)

\* pathlib's suffix of a file name: what follows the stem, from the last dot
suffix(name) ==
    CHOOSE sfx \in {".parquet", ".pq", ".csv"} :
        \E stem \in {"a", "b", "c", "d", "e", "f"} : name = stem \o sfx

\* parquet_metadata.schema.names of the file of that name
SchemaNames(name) ==
    CASE name = "a.parquet" ->
            <<"Metadata_Well", "Cells_AreaShape_Area", "Nuclei_AreaShape_Area">>
      [] name = "b.parquet" -> <<"Cells_AreaShape_Area", "Metadata_Well">>
      [] name = "c.pq" -> <<"Nuclei_AreaShape_Area", "Metadata_Well">>
      [] name = "d.parquet" ->
            <<"Cells_AreaShape_Area", "Metadata_Well", "Cells_AreaShape_Area">>
      [] name = "e.parquet" -> <<"Metadata_treatment">>
      [] OTHER -> <<>>

\* the elements of profile_paths: pathlib.Path objects, and a str, which the
\* signature also allows
ProfilePaths ==
    {[kind |-> "Path", name |-> n] :
        n \in {"a.parquet", "b.parquet", "c.pq", "d.parquet", "e.parquet",
               "f.csv"}}
    \cup {[kind |-> "str", name |-> "a.parquet"]}

\* line 81 as written: not path.suffix == ".parquet" or path.suffix == ".pq"
NotParquet(path) ==
    (~(suffix(path.name) = ".parquet")) \/ suffix(path.name) = ".pq"

\* the mutation of RetainShared: the names of the later file are kept, in
\* its order
RetainFromLater(shared_features, column_names) ==
    SelectSeq(column_names, LAMBDA name : name \in Range(shared_features))

\* line 100: [name for name in shared_features if name in column_names]
RetainShared(shared_features, column_names) ==
    SelectSeq(shared_features, LAMBDA name : name \in Range(column_names))

\* lines 80-82: the loop over the paths that checks each suffix; the first
\* path that fails ends the call (a str has no attribute suffix)
SharedCheckSuffixes ==
    /\ pc = "fsf_check"
    /\ LET paths == fsf.profile_paths
           Fails(k) == paths[k].kind = "str" \/ NotParquet(paths[k])
       IN IF \E k \in DOMAIN paths : Fails(k)
          THEN LET k == CHOOSE j \in DOMAIN paths :
                            Fails(j) /\ \A h \in 1..(j - 1) : ~Fails(h)
               IN /\ pc' = "raised"
                  /\ err' = IF paths[k].kind = "str" THEN "AttributeError"
                            ELSE "ValueError"
          ELSE /\ pc' = "fsf_read"
               /\ err' = err
    /\ UNCHANGED <<core_vars, ann, spl, fsf, blp, lbc, pwc>>

\* lines 85-102: the next file's schema is read and intersected, or the
\* call returns
SharedNextProfile ==
    /\ pc = "fsf_read"
    /\ IF fsf.i < Len(fsf.profile_paths)
       THEN LET column_names == SchemaNames(fsf.profile_paths[fsf.i + 1].name)
            IN /\ fsf' = [fsf EXCEPT
                     !.i = @ + 1,
                     !.shared_features =
                         IF @.is_none
                         THEN [is_none |-> FALSE, names |-> column_names]
                         ELSE [is_none |-> FALSE,
                               names |-> RetainShared(@.names, column_names)]]
               /\ pc' = "fsf_read"
       ELSE /\ fsf' = [fsf EXCEPT !.result =
                         [returned |-> TRUE,
                          value |-> IF fsf.shared_features.is_none
                                       \/ fsf.shared_features.names = <<>>
                                    THEN <<>>
                                    ELSE fsf.shared_features.names]]
            /\ pc' = "fsf_done"
    /\ UNCHANGED <<err, core_vars, ann, spl, blp, lbc, pwc>>

\* find_shared_features called on every list of up to MaxPaths paths
InitShared ==
    \E n \in 0..MaxPaths : \E paths \in [1..n -> ProfilePaths] :
        /\ fsf = [profile_paths |-> paths,
                  shared_features |-> [is_none |-> TRUE, names |-> <<>>],
                  i |-> 0,
                  result |-> NothingReturned]
        /\ pc = "fsf_check"
        /\ err = "none"
        /\ CoreNotCalled
        /\ ann = NotCalled
        /\ spl = NotCalled
        /\ blp = NotCalled
        /\ lbc = NotCalled
        /\ pwc = NotCalled

NextShared ==
    \/ SharedCheckSuffixes
    \/ SharedNextProfile

SpecShared == InitShared /\ [][NextShared]_vars

-----------------------------------------------------------------------------
(* Properties of find_shared_features *)

\* C13: find_shared_features returns exactly the column names that are in
\* the schema of every file, once per occurrence in the first file and in
\* the first file's order; it returns the empty list for an empty list of
\* paths and when no column is common to all files.
C13_SharedInFirstFileOrder ==
    pc = "fsf_done" =>
        LET paths == fsf.profile_paths
            InAll(name) ==
                \A k \in DOMAIN paths : name \in Range(SchemaNames(paths[k].name))
        IN /\ fsf.result.returned
           /\ fsf.result.value =
                 IF paths = <<>> THEN <<>>
                 ELSE SelectSeq(SchemaNames(paths[1].name), InAll)
           /\ (\A k \in DOMAIN paths :
                  \A name \in Range(SchemaNames(paths[k].name)) : ~InAll(name))
                 => fsf.result.value = <<>>

\* three files were read, the first of which names a shared column twice
C13_Witness ==
    /\ pc = "fsf_done"
    /\ Len(fsf.profile_paths) = 3
    /\ fsf.profile_paths[1].name = "d.parquet"
    /\ fsf.profile_paths[2].name = "a.parquet"
    /\ fsf.result.value = <<"Cells_AreaShape_Area", "Metadata_Well",
                            "Cells_AreaShape_Area">>

\* C14 as stated: find_shared_features raises ValueError, before it reads a
\* file, exactly when some path has a suffix that is neither ".parquet" nor
\* ".pq"; a list whose paths all end in ".parquet" or ".pq" is accepted.
C14_ValueErrorIffNotParquet ==
    (pc # "fsf_check" /\ \A k \in DOMAIN fsf.profile_paths :
                            fsf.profile_paths[k].kind = "Path") =>
        ((pc = "raised" /\ err = "ValueError" /\ fsf.i = 0)
            <=> \E k \in DOMAIN fsf.profile_paths :
                   suffix(fsf.profile_paths[k].name) \notin {".parquet", ".pq"})

-----------------------------------------------------------------------------
(* batch_load_profiles (src/src/io_utils.py 90-135) *)

\* the barcodes dicts of n batches: a batch has platemap p1 with up to
\* MaxPlates distinct plates, and may have a second platemap p2
LoadInputs(n) ==
    LET lists == {l \in UNION {[1..k -> {"plate_1", "plate_2"}] :
                                  k \in 0..MaxPlates} :
                     \A i, j \in DOMAIN l : i # j => l[i] # l[j]}
        dicts ==
            {<<[platemap_id |-> "p1", plate_list |-> l]>> : l \in lists}
            \cup {<<[platemap_id |-> "p1", plate_list |-> l1],
                    [platemap_id |-> "p2", plate_list |-> l2]>> :
                    l1 \in lists, l2 \in {<<>>, <<"plate_2">>}}
    IN {[b \in 1..n |-> [batch_id |-> BatchIds[b], batch_contents |-> f[b]]] :
           f \in [1..n -> dicts]}

\* path_to_data_dir: for each file name, whether the file is there and
\* whether pandas can read it
DataDirs ==
    [{"plate_1_cleaned.parquet", "plate_2_cleaned.parquet"}
        -> {"missing", "parquet", "unreadable"}]

\* the table pd.read_parquet makes of a readable file: one well of a
\* compound in failing cells, with the metadata columns the analysis reads
ParquetTable(path) ==
    DataFrame(<<"Metadata_Well", "Metadata_treatment", "Metadata_cell_type",
                "Cells_AreaShape_Area">>,
              <<[Metadata_Well |-> path,
                 Metadata_treatment |-> "trt1",
                 Metadata_cell_type |-> "failing",
                 Cells_AreaShape_Area |-> "0.5"]>>)

\* lines 121-122: path.resolve(strict=True) raises FileNotFoundError for a
\* file that is not there and pd.read_parquet raises on one it cannot read
ReadParquet(dir, path) ==
    CASE dir[path] = "missing" -> [raised |-> "FileNotFoundError"]
      [] dir[path] = "unreadable" -> [raised |-> "ArrowInvalid"]
      [] OTHER -> [raised |-> "none", profile_df |-> ParquetTable(path)]

\* the mutations of ExceptClause: a handler is taken out
ExceptOnlyException(e) ==
    IF e = "FileNotFoundError" THEN "unhandled" ELSE "Error"

ExceptOnlyFileNotFound(e) ==
    IF e = "FileNotFoundError" THEN "Warning" ELSE "unhandled"

\* lines 124-127: the except clause that handles exception e, by what it
\* prints; every exception read_parquet raises is an Exception
ExceptClause(e) ==
    IF e = "FileNotFoundError" THEN "Warning" ELSE "Error"

\* lines 112-113 and 135: the next batch of barcodes.items(), or the return
LoadNextBatch ==
    /\ pc = "load_batch"
    /\ IF blp.b < Len(blp.barcodes)
       THEN /\ blp' = [blp EXCEPT !.b = @ + 1, !.p = 0,
                                  !.platemap_profiles = <<>>]
            /\ pc' = "load_platemap"
       ELSE /\ blp' = [blp EXCEPT !.result =
                         [returned |-> TRUE, value |-> blp.loaded_profiles]]
            /\ pc' = "load_done"
    /\ UNCHANGED <<err, core_vars, ann, spl, fsf, lbc, pwc>>

\* lines 115-116 and 133: the next platemap of the batch, or the batch is
\* stored under its batch id
LoadNextPlatemap ==
    /\ pc = "load_platemap"
    /\ IF blp.p < Len(blp.barcodes[blp.b].batch_contents)
       THEN /\ blp' = [blp EXCEPT !.p = @ + 1, !.x = 0,
                                  !.profiles_for_platemap = <<>>]
            /\ pc' = "load_plate"
       ELSE /\ blp' = [blp EXCEPT !.loaded_profiles =
                         Append(@, [batch_id |-> blp.barcodes[blp.b].batch_id,
                                    platemaps |-> blp.platemap_profiles])]
            /\ pc' = "load_batch"
    /\ UNCHANGED <<err, core_vars, ann, spl, fsf, lbc, pwc>>

\* lines 118-130: the next plate of the list is loaded, or its failure is
\* printed; after the last plate the list is stored under the platemap id
LoadNextPlate ==
    /\ pc = "load_plate"
    /\ LET platemap == blp.barcodes[blp.b].batch_contents[blp.p]
       IN IF blp.x < Len(platemap.plate_list)
          THEN LET profile_path ==
                       platemap.plate_list[blp.x + 1] \o "_cleaned.parquet"
                   read == ReadParquet(blp.path_to_data_dir, profile_path)
               IN IF read.raised = "none"
                  THEN /\ blp' = [blp EXCEPT !.x = @ + 1,
                                     !.profiles_for_platemap =
                                         Append(@, read.profile_df)]
                       /\ pc' = "load_plate"
                       /\ err' = err
                  ELSE IF ExceptClause(read.raised) = "unhandled"
                  THEN /\ blp' = [blp EXCEPT !.x = @ + 1]
                       /\ pc' = "raised"
                       /\ err' = read.raised
                  ELSE /\ blp' = [blp EXCEPT !.x = @ + 1,
                                     !.printed =
                                         Append(@, [kind |-> ExceptClause(read.raised),
                                                    path |-> profile_path])]
                       /\ pc' = "load_plate"
                       /\ err' = err
          ELSE /\ blp' = [blp EXCEPT !.platemap_profiles =
                             Append(@, [platemap_id |-> platemap.platemap_id,
                                        profiles |-> blp.profiles_for_platemap])]
               /\ pc' = "load_platemap"
               /\ err' = err
    /\ UNCHANGED <<core_vars, ann, spl, fsf, lbc, pwc>>

\* batch_load_profiles called on every barcodes dict within the bounds and
\* every state of the data directory
InitLoad ==
    \E n \in 0..MaxBatches : \E barcodes \in LoadInputs(n) :
    \E dir \in DataDirs :
        /\ blp = [barcodes |-> barcodes,
                  path_to_data_dir |-> dir,
                  loaded_profiles |-> <<>>,
                  platemap_profiles |-> <<>>,
                  profiles_for_platemap |-> <<>>,
                  printed |-> <<>>,
                  b |-> 0, p |-> 0, x |-> 0,
                  result |-> NothingReturned]
        /\ pc = "load_batch"
        /\ err = "none"
        /\ CoreNotCalled
        /\ ann = NotCalled
        /\ spl = NotCalled
        /\ fsf = NotCalled
        /\ lbc = NotCalled
        /\ pwc = NotCalled

NextLoad ==
    \/ LoadNextBatch
    \/ LoadNextPlatemap
    \/ LoadNextPlate

SpecLoad == InitLoad /\ [][NextLoad]_vars

-----------------------------------------------------------------------------
(* Properties of batch_load_profiles *)

\* the file of the plate, as the data directory has it
PlateFile(plate_name) == blp.path_to_data_dir[plate_name \o "_cleaned.parquet"]

\* the output has an entry for every batch and platemap of the input, and
\* the list of a platemap holds the tables of its plates that satisfy
\* Loads, in plate-list order
EntriesHold(value, Loads(_)) ==
    /\ Len(value) = Len(blp.barcodes)
    /\ \A b \in DOMAIN blp.barcodes :
        /\ value[b].batch_id = blp.barcodes[b].batch_id
        /\ Len(value[b].platemaps) = Len(blp.barcodes[b].batch_contents)
        /\ \A p \in DOMAIN blp.barcodes[b].batch_contents :
            LET platemap == blp.barcodes[b].batch_contents[p]
                plates == SelectSeq(platemap.plate_list, Loads)
            IN /\ value[b].platemaps[p].platemap_id = platemap.platemap_id
               /\ value[b].platemaps[p].profiles =
                     [k \in DOMAIN plates |->
                         ParquetTable(plates[k] \o "_cleaned.parquet")]

\* C15 as stated: batch_load_profiles never raises because a plate file is
\* missing; the output has an entry for every batch and platemap, holding
\* the tables of exactly the plates whose file exists, in plate-list order.
C15_ExistingPlatesLoaded ==
    /\ pc # "raised"
    /\ pc = "load_done" =>
          EntriesHold(blp.result.value,
                      LAMBDA plate : PlateFile(plate) # "missing")

\* C15 amended: batch_load_profiles never raises because a plate file is
\* missing; the output has an entry for every batch and platemap, holding
\* the tables of exactly the plates whose file exists and could be read, in
\* plate-list order.
C15_ReadablePlatesLoaded ==
    /\ pc # "raised"
    /\ pc = "load_done" =>
          /\ blp.result.returned
          /\ EntriesHold(blp.result.value,
                         LAMBDA plate : PlateFile(plate) = "parquet")

\* a list with a missing plate followed by a readable one was loaded
C15_Witness ==
    /\ pc = "load_done"
    /\ \E b \in DOMAIN blp.barcodes :
          LET platemap == blp.barcodes[b].batch_contents[1]
          IN /\ Len(platemap.plate_list) = 2
             /\ PlateFile(platemap.plate_list[1]) = "missing"
             /\ PlateFile(platemap.plate_list[2]) = "parquet"
             /\ Len(blp.result.value[b].platemaps[1].profiles) = 1

\* the plates the loops have tried so far, in order
RECURSIVE PlatesTried(_, _)
PlatesTried(b, p) ==
    IF b = 0 \/ b > Len(blp.barcodes) THEN <<>>
    ELSE IF p = 0 THEN PlatesTried(b - 1,
                          IF b = 1 THEN 0
                          ELSE Len(blp.barcodes[b - 1].batch_contents))
    ELSE PlatesTried(b, p - 1)
         \o (IF b = blp.b /\ p = blp.p
             THEN SubSeq(blp.barcodes[b].batch_contents[p].plate_list, 1, blp.x)
             ELSE blp.barcodes[b].batch_contents[p].plate_list)

\* C16 as stated: a failure while loading a plate file that exists aborts
\* the loading at once and propagates to the caller.
C16_LoadFailurePropagates ==
    (\E k \in DOMAIN blp.printed : blp.printed[k].kind = "Error")
        => pc = "raised"

\* C16 amended: a failure while loading a plate file that exists is caught
\* and reported with a printed "Error loading file" message; the plate is
\* omitted, loading continues with the next plate, and no exception reaches
\* the caller.
C16_LoadFailureReported ==
    /\ pc # "raised"
    /\ err = "none"
    /\ LET tried == PlatesTried(blp.b, blp.p)
           unreadable == SelectSeq(tried,
                             LAMBDA plate : PlateFile(plate) = "unreadable")
           errors == SelectSeq(blp.printed, LAMBDA m : m.kind = "Error")
       IN errors = [k \in DOMAIN unreadable |->
                       [kind |-> "Error",
                        path |-> unreadable[k] \o "_cleaned.parquet"]]
    /\ pc = "load_done" =>
          /\ PlatesTried(blp.b, blp.p) =
                Flatten([b \in DOMAIN blp.barcodes |->
                    Flatten([p \in DOMAIN blp.barcodes[b].batch_contents |->
                        blp.barcodes[b].batch_contents[p].plate_list])])
          /\ \A b \in DOMAIN blp.barcodes :
             \A p \in DOMAIN blp.barcodes[b].batch_contents :
                Len(blp.result.value[b].platemaps[p].profiles) =
                    Len(SelectSeq(blp.barcodes[b].batch_contents[p].plate_list,
                                  LAMBDA plate : PlateFile(plate) = "parquet"))

\* an unreadable plate was followed by a readable one, which was loaded
C16_Witness ==
    /\ pc = "load_done"
    /\ \E b \in DOMAIN blp.barcodes :
          LET platemap == blp.barcodes[b].batch_contents[1]
          IN /\ Len(platemap.plate_list) = 2
             /\ PlateFile(platemap.plate_list[1]) = "unreadable"
             /\ PlateFile(platemap.plate_list[2]) = "parquet"
             /\ blp.result.value[b].platemaps[1].profiles =
                   <<ParquetTable(platemap.plate_list[2] \o "_cleaned.parquet")>>
    /\ \E k \in DOMAIN blp.printed : blp.printed[k].kind = "Error"

-----------------------------------------------------------------------------
(* load_barcodes (src/src/io_utils.py 41-88) *)

\* the platemap_file values of a barcode file, in the order Python sorts
\* strings
PlatemapFileNames == <<"platemap_1", "platemap_2">>

\* an empty cell, which pd.read_csv reads as NaN
NaN == "NaN"

\* the barcode files of up to MaxRows rows; the row at position i has
\* plate_barcode "plate_i"
BarcodeFiles ==
    {[i \in DOMAIN f |->
         [platemap_file |-> f[i], plate_barcode |-> "plate_" \o str(i)]] :
        f \in UNION {[1..n -> Range(PlatemapFileNames) \cup {NaN}] :
                        n \in 0..MaxRows}}

\* the mutation of groupby_keys: the group keys in order of first appearance
groupby_keys_unsorted(keys) ==
    Distinct(SelectSeq(keys, LAMBDA k : k # NaN))

\* the group keys of DataFrame.groupby with its defaults sort=True and
\* dropna=True: the distinct keys that are not NaN, sorted
groupby_keys(keys) ==
    SelectSeq(PlatemapFileNames, LAMBDA k : k \in Range(keys))

\* lines 64-71: the type check and pd.read_csv
ReadBarcodes ==
    /\ pc = "barcodes_read"
    /\ IF lbc.barcode_path.kind \notin {"str", "Path"}
       THEN /\ pc' = "raised"
            /\ err' = "TypeError"
            /\ lbc' = lbc
       ELSE /\ pc' = "barcodes_group"
            /\ err' = err
            /\ lbc' = [lbc EXCEPT !.barcodes = lbc.barcode_path.csv]
    /\ UNCHANGED <<core_vars, ann, spl, fsf, blp, pwc>>

\* lines 77-88: the next group of barcodes.groupby("platemap_file") becomes
\* a batch, or the call returns
BarcodesNextGroup ==
    /\ pc = "barcodes_group"
    /\ LET keys == groupby_keys([i \in DOMAIN lbc.barcodes |->
                                    lbc.barcodes[i].platemap_file])
       IN IF lbc.idx < Len(keys)
          THEN LET platemap_name == keys[lbc.idx + 1]
                   df == SelectSeq(lbc.barcodes,
                             LAMBDA r : r.platemap_file = platemap_name)
               IN /\ lbc' = [lbc EXCEPT
                        !.idx = @ + 1,
                        !.barcode_contents =
                            Append(@,
                                [batch_id |-> "batch_" \o str(lbc.idx + 1),
                                 platemap_name |-> platemap_name,
                                 plate_barcodes |->
                                     [i \in DOMAIN df |-> df[i].plate_barcode]])]
                  /\ pc' = "barcodes_group"
          ELSE /\ lbc' = [lbc EXCEPT !.result =
                            [returned |-> TRUE, value |-> lbc.barcode_contents]]
               /\ pc' = "barcodes_done"
    /\ UNCHANGED <<err, core_vars, ann, spl, fsf, blp, pwc>>

\* load_barcodes called with a path to every barcode file within the bounds
InitBarcodes ==
    \E csv \in BarcodeFiles : \E kind \in {"str", "Path", "other"} :
        /\ lbc = [barcode_path |-> [kind |-> kind, csv |-> csv],
                  barcodes |-> <<>>,
                  barcode_contents |-> <<>>,
                  idx |-> 0,
                  result |-> NothingReturned]
        /\ pc = "barcodes_read"
        /\ err = "none"
        /\ CoreNotCalled
        /\ ann = NotCalled
        /\ spl = NotCalled
        /\ fsf = NotCalled
        /\ blp = NotCalled
        /\ pwc = NotCalled

NextBarcodes ==
    \/ ReadBarcodes
    \/ BarcodesNextGroup

SpecBarcodes == InitBarcodes /\ [][NextBarcodes]_vars

-----------------------------------------------------------------------------
(* Properties of load_barcodes *)

\* the rows of the barcode file
CsvRows == lbc.barcode_path.csv

\* the batches are batch_1, batch_2, ..., one per element of names and in
\* that order, and each holds the plate_barcode values of the rows with its
\* platemap_file value, in file order
BatchesFollow(value, names) ==
    /\ Len(value) = Len(names)
    /\ \A k \in DOMAIN names :
        LET rows == SelectSeq(CsvRows, LAMBDA r : r.platemap_file = names[k])
        IN /\ value[k].batch_id = "batch_" \o str(k)
           /\ value[k].platemap_name = names[k]
           /\ value[k].plate_barcodes =
                 [i \in DOMAIN rows |-> rows[i].plate_barcode]

\* the number of batches that hold the plate_barcode of row i
BatchesHolding(value, i) ==
    Cardinality({k \in DOMAIN value :
        /\ value[k].platemap_name = CsvRows[i].platemap_file
        /\ CsvRows[i].plate_barcode \in Range(value[k].plate_barcodes)})

\* C17 as stated: batch_1, batch_2, ... are assigned to the distinct
\* platemap_file values in order of first appearance in the file; each batch
\* maps its platemap name to its plate_barcode values in file order; every
\* row is in exactly one batch.
C17_FirstAppearanceOrder ==
    pc = "barcodes_done" =>
        /\ BatchesFollow(lbc.result.value,
               Distinct([i \in DOMAIN CsvRows |-> CsvRows[i].platemap_file]))
        /\ \A i \in DOMAIN CsvRows : BatchesHolding(lbc.result.value, i) = 1

\* position of a platemap_file value in Python's string order
NameRank(name) == CHOOSE k \in DOMAIN PlatemapFileNames : PlatemapFileNames[k] = name

\* C17 amended: batch_1, batch_2, ... are assigned to the distinct
\* platemap_file values in sorted order of the values (the order of
\* DataFrame.groupby), not in order of first appearance; each batch maps its
\* one platemap name to its plate_barcode values in file order; every row
\* that has a platemap_file value is in exactly one batch, and a row without
\* one is in no batch.
C17_SortedOrder ==
    pc = "barcodes_done" =>
        LET value == lbc.result.value
            names == [k \in DOMAIN value |-> value[k].platemap_name]
        IN /\ lbc.result.returned
           /\ Range(names) =
                 {CsvRows[i].platemap_file : i \in DOMAIN CsvRows} \ {NaN}
           /\ \A j, k \in DOMAIN names :
                 j < k => NameRank(names[j]) < NameRank(names[k])
           /\ BatchesFollow(value, names)
           /\ \A i \in DOMAIN CsvRows :
                 BatchesHolding(value, i) =
                     IF CsvRows[i].platemap_file = NaN THEN 0 ELSE 1

\* a file whose first row names the platemap that sorts last was grouped
\* into two batches
C17_Witness ==
    /\ pc = "barcodes_done"
    /\ Len(CsvRows) = 3
    /\ CsvRows[1].platemap_file = "platemap_2"
    /\ CsvRows[2].platemap_file = "platemap_1"
    /\ CsvRows[3].platemap_file = "platemap_2"
    /\ Len(lbc.result.value) = 2
    /\ lbc.result.value[2].plate_barcodes = <<"plate_1", "plate_3">>

-----------------------------------------------------------------------------
(* The pathway validation of pairwise-compare, cell In[14]                  *)
(* (src/notebooks/exploratory-analysis/pairwise-analysis/nbconverted/       *)
(*  pairwise-compare.py 300-360)                                            *)

\* Python's None, which a missing string of a parquet file is read as
None == "None"

\* line 53: the tables pathway_df of up to MaxRows rows
PathwayTables ==
    UNION {[1..n -> [Metadata_treatment : {"trt1", "trt2"},
                     Metadata_Pathway : {"A", "B", NaN, None}]] :
              n \in 0..MaxRows}

\* lines 301-317: the tables of treatment-vs-control scores, before the
\* merge; every treatment in them is a treatment of pathway_df
ScoreTables(pathway_df) ==
    UNION {[1..n -> [pearsons_correlation : {"0.5"},
                     Metadata_treatment :
                         {pathway_df[i].Metadata_treatment :
                             i \in DOMAIN pathway_df},
                     reference : {"Healthy"}]] : n \in 0..2}

\* lines 321-323: left.merge(right, how="left", on="Metadata_treatment")
\* followed by drop_duplicates()
merge_drop_duplicates(left, right) ==
    LET Matches(l) ==
            LET m == SelectSeq(right,
                        LAMBDA r : r.Metadata_treatment = l.Metadata_treatment)
            IN IF m = <<>>
               THEN <<[pearsons_correlation |-> l.pearsons_correlation,
                       Metadata_treatment |-> l.Metadata_treatment,
                       reference |-> l.reference,
                       Metadata_Pathway |-> NaN]>>
               ELSE [j \in DOMAIN m |->
                       [pearsons_correlation |-> l.pearsons_correlation,
                        Metadata_treatment |-> l.Metadata_treatment,
                        reference |-> l.reference,
                        Metadata_Pathway |-> m[j].Metadata_Pathway]]
    IN Distinct(Flatten([i \in DOMAIN left |-> Matches(left[i])]))

\* lines 327-338: dict(zip(df["Metadata_treatment"], df["Metadata_Pathway"])):
\* the keys in order of first appearance, each with its last value
dict_zip(df) ==
    LET keys == Distinct([i \in DOMAIN df |-> df[i].Metadata_treatment])
        Last(key) == CHOOSE i \in DOMAIN df :
                        /\ df[i].Metadata_treatment = key
                        /\ \A j \in DOMAIN df :
                              df[j].Metadata_treatment = key => j <= i
    IN [k \in DOMAIN keys |->
           [key |-> keys[k], value |-> df[Last(keys[k])].Metadata_Pathway]]

\* line 341: d.get(key), None when the key is absent
dict_get(d, key) ==
    IF \E k \in DOMAIN d : d[k].key = key
    THEN d[CHOOSE k \in DOMAIN d : d[k].key = key].value
    ELSE None

\* pd.isna
isna(v) == v \in {NaN, None}

\* the mutation of PathwayMismatch: no pair of pathways is a mismatch
PathwayMismatchNever(merged_pathway, original_pathway) == FALSE

\* lines 345-348: merged_pathway != original_pathway, where NaN differs
\* from everything, and not both are NaN
PathwayMismatch(merged_pathway, original_pathway) ==
    /\ \/ merged_pathway = NaN
       \/ original_pathway = NaN
       \/ merged_pathway # original_pathway
    /\ ~(isna(merged_pathway) /\ isna(original_pathway))

\* lines 313-338: the scores are merged with pathway_df and the two lookups
\* are built
PairwiseMerge ==
    /\ pc = "pw_merge"
    /\ LET merged == merge_drop_duplicates(pwc.final_trt_pairwise_scores,
                                           pwc.pathway_df)
       IN pwc' = [pwc EXCEPT
                     !.final_trt_pairwise_scores = merged,
                     !.final_trt_pairwise_pathways = dict_zip(merged),
                     !.pathway_dict = dict_zip(pwc.pathway_df)]
    /\ pc' = "pw_validate"
    /\ UNCHANGED <<err, core_vars, ann, spl, fsf, blp, lbc>>

\* lines 340-350: the next treatment of the merged lookup is checked
\* against pathway_dict
PairwiseValidate ==
    /\ pc = "pw_validate"
    /\ IF pwc.i < Len(pwc.final_trt_pairwise_pathways)
       THEN LET item == pwc.final_trt_pairwise_pathways[pwc.i + 1]
                original_pathway == dict_get(pwc.pathway_dict, item.key)
            IN /\ pwc' = [pwc EXCEPT !.i = @ + 1]
               /\ IF original_pathway = None
                  THEN pc' = "raised" /\ err' = "KeyError"
                  ELSE IF PathwayMismatch(item.value, original_pathway)
                  THEN pc' = "raised" /\ err' = "ValueError"
                  ELSE pc' = "pw_validate" /\ err' = err
       ELSE /\ pc' = "pw_save"
            /\ UNCHANGED <<pwc, err>>
    /\ UNCHANGED <<core_vars, ann, spl, fsf, blp, lbc>>

\* lines 353-360: the missing pathways become "No Pathway" and the table is
\* written
PairwiseSave ==
    /\ pc = "pw_save"
    /\ LET filled ==
              [i \in DOMAIN pwc.final_trt_pairwise_scores |->
                  [pwc.final_trt_pairwise_scores[i] EXCEPT
                      !.Metadata_Pathway = IF isna(@) THEN "No Pathway" ELSE @]]
       IN pwc' = [pwc EXCEPT
                     !.final_trt_pairwise_scores = filled,
                     !.written = Append(@,
                         [path |-> "final_trt_pairwise_scores.csv",
                          rows |-> filled])]
    /\ pc' = "pw_done"
    /\ UNCHANGED <<err, core_vars, ann, spl, fsf, blp, lbc>>

\* the cell run on every pathway table and score table within the bounds
InitPairwise ==
    \E pathway_df \in PathwayTables : \E scores \in ScoreTables(pathway_df) :
        /\ pwc = [pathway_df |-> pathway_df,
                  final_trt_pairwise_scores |-> scores,
                  final_trt_pairwise_pathways |-> <<>>,
                  pathway_dict |-> <<>>,
                  i |-> 0,
                  written |-> <<>>]
        /\ pc = "pw_merge"
        /\ err = "none"
        /\ CoreNotCalled
        /\ ann = NotCalled
        /\ spl = NotCalled
        /\ fsf = NotCalled
        /\ blp = NotCalled
        /\ lbc = NotCalled

NextPairwise ==
    \/ PairwiseMerge
    \/ PairwiseValidate
    \/ PairwiseSave

SpecPairwise == InitPairwise /\ [][NextPairwise]_vars

-----------------------------------------------------------------------------
(* Properties of the pathway validation *)

\* the pathway of the last row of rows that has the treatment
LastPathway(rows, treatment) ==
    LET at == {i \in DOMAIN rows : rows[i].Metadata_treatment = treatment}
    IN rows[CHOOSE i \in at : \A j \in at : j <= i].Metadata_Pathway

\* the treatment's pathway in the merged result differs from its pathway in
\* pathway_df, the case where both are missing excepted
PathwayDiffers(treatment) ==
    LET merged_pathway == LastPathway(pwc.final_trt_pairwise_scores, treatment)
        original_pathway == LastPathway(pwc.pathway_df, treatment)
    IN /\ merged_pathway # original_pathway
       /\ ~(merged_pathway \in {NaN, None} /\ original_pathway \in {NaN, None})

\* C18: if for any treatment the pathway of the merged result differs from
\* the pathway of the lookup built from pathway_df (both missing excepted),
\* an error is raised and final_trt_pairwise_scores.csv is not written; the
\* file is written only after every treatment has passed the check.
C18_MismatchRaisesBeforeWrite ==
    /\ pc \in {"pw_validate", "pw_save", "raised"} =>
          /\ pwc.written = <<>>
          /\ \A k \in 1..pwc.i :
                PathwayDiffers(pwc.final_trt_pairwise_pathways[k].key)
                    => /\ pc = "raised"
                       /\ k = pwc.i
          /\ pc = "pw_save" =>
                /\ pwc.i = Len(pwc.final_trt_pairwise_pathways)
                /\ \A r \in Range(pwc.final_trt_pairwise_scores) :
                      ~PathwayDiffers(r.Metadata_treatment)
    /\ pc = "pw_merge" => pwc.written = <<>>
    /\ pc = "pw_done" =>
          /\ Len(pwc.written) = 1
          /\ pwc.i = Len(pwc.final_trt_pairwise_pathways)
          /\ err = "none"

\* the merged pathway of a treatment differed from the lookup's: ValueError
\* was raised and nothing written
C18_Witness ==
    /\ pc = "raised"
    /\ err = "ValueError"
    /\ pwc.i >= 1
    /\ PathwayDiffers(pwc.final_trt_pairwise_pathways[pwc.i].key)
    /\ pwc.written = <<>>

-----------------------------------------------------------------------------
(* The input paths of notebook 2.map-analysis                               *)
(* (src/notebooks/1.map-analysis/nbconverted/2.map-analysis.py 21-28)       *)

\* lines 25-28: the AP and mAP files the notebook resolves in the directory
\* of the scores
map_analysis_paths(map_results_dir) ==
    {map_results_dir \o "/" \o name :
        name \in {"negative_control_failing_DMSO_AP_scores.csv",
                  "positive_control_healthy_DMSO_AP_scores.csv",
                  "negative_control_failing_DMSO_mAP_scores.csv",
                  "positive_control_healthy_DMSO_mAP_scores.csv"}}

\* C19: every AP/mAP file the notebook opens is a file that
\* calculate_trt_map_batch_profiles writes, under its naming scheme, for
\* some batch identifier and shuffled/original label.
C19_ConsumerNamesConform ==
    (pc = "done" /\ batched_profiles.items # <<>>) =>
        \A path \in map_analysis_paths(outdir_path.dir) :
            \/ path \in WrittenPaths
            \/ \E batch \in Range(BatchIds) :
               \E label \in {"shuffled", "original"} :
               \E k \in DOMAIN control_list : \E kind \in {"AP", "mAP"} :
                  path = ScoresPath(outdir_path, batch, label,
                                    control_list[k], kind)

\* the four files of a batch in the order of the claim: negative AP,
\* negative mAP, positive AP, positive mAP
FourFilesInOrder(batch, label) ==
    [k \in 1..4 |->
        outdir_path.dir \o "/" \o batch \o "_" \o label \o
            <<"_negative_control_failing_DMSO_AP_scores.csv",
              "_negative_control_failing_DMSO_mAP_scores.csv",
              "_positive_control_healthy_DMSO_AP_scores.csv",
              "_positive_control_healthy_DMSO_mAP_scores.csv">>[k]]

\* C20: the files of a run are written in a fixed order: batches in the
\* iteration order of batched_profiles and, within a batch, negative AP,
\* negative mAP, positive AP, positive mAP; no file of a later batch comes
\* before all four files of every earlier batch.
C20_WritesInOrder ==
    LET expected ==
            Flatten([i \in DOMAIN batched_profiles.items |->
                FourFilesInOrder(batched_profiles.items[i].batch_id,
                    IF shuffled = "True" THEN "shuffled" ELSE "original")])
    IN /\ Len(writes) <= Len(expected)
       /\ \A k \in DOMAIN writes : writes[k].path = expected[k]
       /\ (bi >= 1 /\ pc \notin {"check", "sections"}) =>
             /\ Len(writes) >= 4 * (bi - 1)
             /\ Len(writes) <= 4 * bi

\* the first file of the second batch has been written, after the four of
\* the first batch
C20_Witness ==
    /\ Len(batched_profiles.items) = 2
    /\ bi = 2
    /\ Len(writes) = 5
    /\ pc = "map"

-----------------------------------------------------------------------------
(* Failure of a step of calculate_trt_map_batch_profiles *)

\* C21: when a step fails for some (batch, control) the run stops there: no
\* step is taken and no file written after the failure, the failing step
\* itself writes nothing, and every file written before stays as written
\* (the log of writes only grows, and no written path is written again).
C21_FailureStopsRun ==
    [][/\ err = "none"
       /\ pc # "raised"
       /\ Len(writes') >= Len(writes)
       /\ SubSeq(writes', 1, Len(writes)) = writes
       /\ \A k \in (Len(writes) + 1)..Len(writes') :
             writes'[k].path \notin WrittenPaths
       /\ (err' # "none" \/ pc' = "raised") =>
             /\ pc' = "raised"
             /\ err' # "none"
             /\ writes' = writes]_vars

\* a step of the second batch failed after the first batch's four files and
\* one file of the second batch had been written
C21_Witness ==
    /\ pc = "raised"
    /\ err # "none"
    /\ bi = 2
    /\ Len(writes) = 5

-----------------------------------------------------------------------------
(* Two runs of calculate_trt_map_batch_profiles on the same batched_profiles, *)
(* configs and outdir_path, the second with the other value of shuffled      *)
(* (src/src/analysis_utils.py 18-157)                                        *)

\* the function has returned or raised, and is called again with the same
\* arguments but the other value of shuffled
SecondRun ==
    /\ pc \in {"done", "raised"}
    /\ ~first_run.called
    /\ shuffled \in {"True", "False"}
    /\ first_run' = [called |-> TRUE, pc |-> pc, err |-> err,
                     shuffled |-> shuffled, writes |-> writes]
    /\ shuffled' = IF shuffled = "True" THEN "False" ELSE "True"
    /\ heap' = caller
    /\ pc' = "check"
    /\ err' = "none"
    /\ loaded' = FullConfig
    /\ bi' = 0
    /\ ci' = 0
    /\ profile' = 0
    /\ replicate_aps' = NoTable
    /\ replicate_maps' = NoTable
    /\ writes' = <<>>
    /\ UNCHANGED <<caller, batched_profiles, configs, outdir_path,
                   concat_vars, ann, spl, fsf, blp, lbc, pwc>>

\* copairs is a function of its arguments: called in the second run with
\* the arguments of the first, average_precision (lines 116-123) and
\* mean_average_precision (lines 141-147) answer as they did in the first
\* run, where that answer is known from what the first run wrote or raised
SameAnswers ==
    (first_run.called /\ pc \in {"ap", "map"}) =>
        LET failed_here == /\ first_run.err = "CopairsError"
                           /\ Len(first_run.writes) = Len(writes)
        IN /\ (pc' = "raised" /\ err' = "CopairsError") => failed_here
           /\ pc' \in {"save_ap", "save_map"} => ~failed_here
           /\ (pc' = "save_ap" /\ Len(first_run.writes) > Len(writes)) =>
                 replicate_aps'.rows = first_run.writes[Len(writes) + 1].rows

\* the first run: a dict of up to MaxBatches tables, each the two-plate
\* screen or a table without features, a complete configuration, and an
\* output directory that exists or not
InitTwoRuns ==
    \E n \in 0..MaxBatches :
    \E tables \in [1..n -> {TwoPlates("failing"), NoFeatures}] :
    \E outdir \in {o \in OutdirArgs : o.kind = "Path"} :
    \E shuf \in {"True", "False"} :
        Called(tables, "dict",
               [kind |-> "dict", load |-> "dict", content |-> FullConfig],
               outdir, shuf)

NextTwoRuns ==
    \/ Next /\ SameAnswers
    \/ SecondRun

SpecTwoRuns == InitTwoRuns /\ [][NextTwoRuns]_vars

-----------------------------------------------------------------------------
(* Properties of two runs that differ in shuffled *)

\* the label the claim gives a run with that value of shuffled
LabelOf(flag) == IF flag = "True" THEN "shuffled" ELSE "original"

\* the two paths name the same file of the same batch, one with the label of
\* the first run and one with the label of the second
DifferOnlyInLabel(first_path, second_path) ==
    \E batch \in Range(BatchIds) :
    \E tail \in {"_negative_control_failing_DMSO_AP_scores.csv",
                 "_negative_control_failing_DMSO_mAP_scores.csv",
                 "_positive_control_healthy_DMSO_AP_scores.csv",
                 "_positive_control_healthy_DMSO_mAP_scores.csv"} :
        /\ first_path = outdir_path.dir \o "/" \o batch \o "_"
                            \o LabelOf(first_run.shuffled) \o tail
        /\ second_path = outdir_path.dir \o "/" \o batch \o "_"
                            \o LabelOf(shuffled) \o tail
        /\ LabelOf(first_run.shuffled) # LabelOf(shuffled)

\* C22: two runs on the same batched_profiles, configs and outdir_path that
\* differ only in shuffled (True against False) write the same number of
\* files, file by file with identical table contents and with names that
\* differ only in "shuffled" against "original"; they end in the same way,
\* and the second run hands copairs the arguments of the first (the answer
\* of the first run is an answer to the call of the second).
C22_ShuffledOnlyLabels ==
    first_run.called =>
        /\ Len(writes) <= Len(first_run.writes)
        /\ \A k \in DOMAIN writes :
              /\ DifferOnlyInLabel(first_run.writes[k].path, writes[k].path)
              /\ writes[k].columns = first_run.writes[k].columns
              /\ writes[k].rows = first_run.writes[k].rows
        /\ pc \in {"done", "raised"} =>
              /\ Len(writes) = Len(first_run.writes)
              /\ pc = first_run.pc
              /\ err = first_run.err
        /\ (pc = "ap" /\ Len(first_run.writes) > Len(writes)) =>
              LET df == heap[profile]
                  split == split_meta_and_features(df, DefaultCompartments, FALSE)
              IN \E P \in APAnswers(df) :
                    ExcludeControl(average_precision(df, split.meta_cols, P),
                                   control.control_treatment).rows
                        = first_run.writes[Len(writes) + 1].rows

\* a run with shuffled True and a run with shuffled False on the same two
\* batches each wrote eight files, some of them with rows
C22_Witness ==
    /\ first_run.called
    /\ first_run.shuffled = "True"
    /\ shuffled = "False"
    /\ pc = "done"
    /\ Len(first_run.writes) = 8
    /\ Len(writes) = 8
    /\ \E k \in DOMAIN writes : writes[k].rows # <<>>

-----------------------------------------------------------------------------
(* The pipeline batch_load_profiles -> concat_batch_profiles ->             *)
(* calculate_trt_map_batch_profiles: each function is called on what the   *)
(* one before it returned                                                  *)

\* the tables of the loaded profiles, in dict and list order
LoadedTables(value) ==
    Flatten([b \in DOMAIN value |->
        Flatten([p \in DOMAIN value[b].platemaps |->
            value[b].platemaps[p].profiles])])

\* the number of tables before platemap p of batch b
TablesBefore(value, b, p) ==
    Len(LoadedTables(SubSeq(value, 1, b - 1)))
        + Len(Flatten([q \in 1..(p - 1) |-> value[b].platemaps[q].profiles]))

\* concat_batch_profiles(batch_profile) is called on the dict that
\* batch_load_profiles returned (io_utils.py line 135)
LoadToConcat ==
    /\ pc = "load_done"
    /\ LET value == blp.result.value
       IN /\ heap' = LoadedTables(value)
          /\ caller' = LoadedTables(value)
          /\ batch_profile' =
               [b \in DOMAIN value |->
                  [batch_id |-> value[b].batch_id,
                   platemaps |->
                      [p \in DOMAIN value[b].platemaps |->
                         [platemap_name |-> value[b].platemaps[p].platemap_id,
                          profiles |->
                             [x \in DOMAIN value[b].platemaps[p].profiles |->
                                 TablesBefore(value, b, p) + x]]]]]
    /\ batch_profiles_concat' = <<>>
    /\ updated_profiles' = <<>>
    /\ cb' = 0
    /\ cp' = 0
    /\ cx' = 0
    /\ pc' = "concat_batch"
    /\ UNCHANGED <<err, calc_vars, other_vars>>

\* calculate_trt_map_batch_profiles(batched_profiles, configs, outdir_path,
\* shuffled) is called on the dict that concat_batch_profiles returned
\* (data_utils.py line 192)
ConcatToCalc ==
    /\ pc = "concat_done"
    /\ batched_profiles' = [type |-> "dict", items |-> batch_profiles_concat]
    /\ caller' = heap
    /\ pc' = "check"
    /\ UNCHANGED <<heap, err, configs, outdir_path, shuffled, loaded, bi, ci,
                   profile, replicate_aps, replicate_maps, writes,
                   concat_vars, other_vars>>

\* the pipeline on barcodes of up to MaxBatches batches, each with no plate,
\* one plate, two plates, or an empty platemap and a platemap of one plate,
\* and on every state of the data directory; a complete configuration and
\* an output directory that exists
InitPipeline ==
    LET dicts == {<<[platemap_id |-> "p1", plate_list |-> <<>>]>>,
                  <<[platemap_id |-> "p1", plate_list |-> <<"plate_1">>]>>,
                  <<[platemap_id |-> "p1",
                     plate_list |-> <<"plate_1", "plate_2">>]>>,
                  <<[platemap_id |-> "p1", plate_list |-> <<>>],
                    [platemap_id |-> "p2", plate_list |-> <<"plate_2">>]>>}
    IN \E n \in 0..MaxBatches : \E f \in [1..n -> dicts] : \E dir \in DataDirs :
        /\ blp = [barcodes |-> [b \in 1..n |->
                                   [batch_id |-> BatchIds[b],
                                    batch_contents |-> f[b]]],
                  path_to_data_dir |-> dir,
                  loaded_profiles |-> <<>>,
                  platemap_profiles |-> <<>>,
                  profiles_for_platemap |-> <<>>,
                  printed |-> <<>>,
                  b |-> 0, p |-> 0, x |-> 0,
                  result |-> NothingReturned]
        /\ pc = "load_batch"
        /\ err = "none"
        /\ CoreNotCalled
        /\ ann = NotCalled
        /\ spl = NotCalled
        /\ fsf = NotCalled
        /\ lbc = NotCalled
        /\ pwc = NotCalled

NextPipeline ==
    \/ NextLoad
    \/ LoadToConcat
    \/ NextConcat
    \/ ConcatToCalc
    \/ Next

SpecPipeline == InitPipeline /\ [][NextPipeline]_vars

-----------------------------------------------------------------------------
(* Properties of the pipeline *)

\* concat_batch_profiles has returned
Concatenated ==
    pc \notin {"load_batch", "load_platemap", "load_plate", "load_done",
               "concat_batch", "concat_platemap", "concat_profile",
               "concat_join"}

\* a table was loaded for some platemap of the batch
HasTable(entry) ==
    \E p \in DOMAIN entry.platemaps : entry.platemaps[p].profiles # <<>>

\* the four files of a batch
PathsOfBatch(batch) ==
    {ScoresPath(outdir_path, batch, shuffled_label, control_list[c], kind) :
        c \in DOMAIN control_list, kind \in {"AP", "mAP"}}

====
